---- MODULE Spec2Model ----
(***************************************************************************)
(* Model of shadcn-vue-registry's dependency classifier                    *)
(* (src/utils/dependencies.ts, getDependencies) and of the helpers it      *)
(* calls (src/utils/utils.ts).                                             *)
(*                                                                         *)
(* A JavaScript string is modelled as the sequence of its UTF-16 code      *)
(* units, each code unit written as a one-character TLA+ string; the two   *)
(* non-ASCII code units the model uses are written "U+FB01" (LATIN SMALL   *)
(* LIGATURE FI) and "U+FF0E" (FULLWIDTH FULL STOP); the quotes, the       *)
(* backslash and the grave accent are written "U+0022", "U+0027",         *)
(* "U+005C" and "U+0060".                                                  *)
(***************************************************************************)
EXTENDS Integers, Sequences, FiniteSets, TLC

\* ------------------------------------------------------------------------
\* JavaScript string primitives
\* ------------------------------------------------------------------------

Range(s) ==
    {s[i] : i \in 1..Len(s)}

\* The printable ASCII code units 0x20..0x7E in code-unit order.
Ascii ==
    <<" ", "!", "U+0022", "#", "$", "%", "&", "U+0027", "(", ")", "*", "+", ",", "-", ".", "/",
      "0", "1", "2", "3", "4", "5", "6", "7", "8", "9", ":", ";", "<", "=", ">", "?",
      "@", "A", "B", "C", "D", "E", "F", "G", "H", "I", "J", "K", "L", "M", "N", "O",
      "P", "Q", "R", "S", "T", "U", "V", "W", "X", "Y", "Z", "[", "U+005C", "]", "^", "_",
      "U+0060", "a", "b", "c", "d", "e", "f", "g", "h", "i", "j", "k", "l", "m", "n", "o",
      "p", "q", "r", "s", "t", "u", "v", "w", "x", "y", "z", "{", "|", "}", "~">>

\* The UTF-16 code unit of a character.
CodeUnit(c) ==
    IF c = "U+FB01" THEN 64257
    ELSE IF c = "U+FF0E" THEN 65294
    ELSE 31 + (CHOOSE i \in 1..Len(Ascii) : Ascii[i] = c)

\* a < b in the order Array.prototype.sort uses without a comparator:
\* code unit by code unit, a proper prefix first.
StrLess(a, b) ==
    \E k \in 1..(Len(b)) :
        /\ k <= Len(a) + 1
        /\ \A i \in 1..(k - 1) : a[i] = b[i]
        /\ \/ k = Len(a) + 1
           \/ CodeUnit(a[k]) < CodeUnit(b[k])

\* String.prototype.startsWith
StartsWith(s, p) ==
    /\ Len(p) <= Len(s)
    /\ SubSeq(s, 1, Len(p)) = p

\* String.prototype.endsWith
EndsWith(s, p) ==
    /\ Len(p) <= Len(s)
    /\ SubSeq(s, Len(s) - Len(p) + 1, Len(s)) = p

\* String.prototype.slice(start) for 0 <= start (0-based).
Slice(s, start) ==
    IF start >= Len(s) THEN <<>> ELSE SubSeq(s, start + 1, Len(s))

\* String.prototype.indexOf, as a 1-based position; 0 when absent.
IndexOf(s, p) ==
    LET hits == {i \in 1..(Len(s) - Len(p) + 1) : SubSeq(s, i, i + Len(p) - 1) = p}
    IN  IF hits = {} THEN 0 ELSE CHOOSE i \in hits : \A j \in hits : i <= j

\* String.prototype.split('/')
RECURSIVE SplitSlash(_)
SplitSlash(s) ==
    LET i == IndexOf(s, <<"/">>)
    IN  IF i = 0 THEN <<s>>
        ELSE <<SubSeq(s, 1, i - 1)>> \o SplitSlash(SubSeq(s, i + 1, Len(s)))

\* The NFKC form of one code unit: the ligature decomposes to "fi", the
\* fullwidth full stop to ".", every ASCII character is its own NFKC form.
NormalizeChar(c) ==
    IF c = "U+FB01" THEN <<"f", "i">>
    ELSE IF c = "U+FF0E" THEN <<".">>
    ELSE <<c>>

\* String.prototype.normalize('NFKC')
RECURSIVE NormalizeNFKC(_)
NormalizeNFKC(s) ==
    IF s = <<>> THEN <<>>
    ELSE NormalizeChar(Head(s)) \o NormalizeNFKC(Tail(s))

\* Set.prototype.add on a Set kept as its insertion-ordered element list.
SetAdd(set, v) ==
    IF v \in Range(set) THEN set ELSE Append(set, v)

\* new Set(array): the distinct elements in first-occurrence order.
RECURSIVE NewSet(_)
NewSet(array) ==
    IF array = <<>> THEN <<>>
    ELSE SetAdd(NewSet(SubSeq(array, 1, Len(array) - 1)), array[Len(array)])

\* Insertion of v into an ascending list (one step of the sort).
RECURSIVE InsertSorted(_, _)
InsertSorted(sorted, v) ==
    IF sorted = <<>> THEN <<v>>
    ELSE IF StrLess(v, Head(sorted)) THEN <<v>> \o sorted
    ELSE <<Head(sorted)>> \o InsertSorted(Tail(sorted), v)

\* ArraySort without the sort: the Set's elements in insertion order.
ArraySort_Unsorted(array) ==
    array

\* Array.from(set).sort(): the elements in ascending code-unit order.
RECURSIVE ArraySort(_)
ArraySort(array) ==
    IF array = <<>> THEN <<>>
    ELSE InsertSorted(ArraySort(Tail(array)), Head(array))

\* ------------------------------------------------------------------------
\* String constants
\* ------------------------------------------------------------------------

\* knownThirdPartyLibs (dependencies.ts:66-72)
S_vue_router ==
    <<"v", "u", "e", "-", "r", "o", "u", "t", "e", "r">>
S_pinia ==
    <<"p", "i", "n", "i", "a">>
S_vue ==
    <<"v", "u", "e">>
S_unplugin_vue_components ==
    <<"u", "n", "p", "l", "u", "g", "i", "n", "-", "v", "u", "e", "-", "c", "o", "m", "p", "o", "n", "e", "n", "t", "s">>
S_unplugin_auto_import ==
    <<"u", "n", "p", "l", "u", "g", "i", "n", "-", "a", "u", "t", "o", "-", "i", "m", "p", "o", "r", "t">>
\* fixed strings of the patterns
S_dot ==
    <<".">>
S_lib_utils ==
    <<"l", "i", "b", "/", "u", "t", "i", "l", "s">>
S_components_ui ==
    <<"c", "o", "m", "p", "o", "n", "e", "n", "t", "s", "/", "u", "i", "/">>
S_name_placeholder ==
    <<"{", "n", "a", "m", "e", "}">>
S_at_registry ==
    <<"@", "/", "r", "e", "g", "i", "s", "t", "r", "y", "/">>
\* package names used as declared dependencies
S_vite ==
    <<"v", "i", "t", "e">>
S_a ==
    <<"a">>
S_b ==
    <<"b">>
S_fix ==
    <<"f", "i", "x">>
\* import literals
S_reg_ui_foo ==
    <<"~", "/", "r", "e", "g", "i", "s", "t", "r", "y", "/", "u", "i", "/", "f", "o", "o">>
S_local ==
    <<".", "/", "l", "o", "c", "a", "l">>
S_a_lib_utils ==
    <<"a", "/", "l", "i", "b", "/", "u", "t", "i", "l", "s">>
S_a_x ==
    <<"a", "/", "x">>
S_rel_x ==
    <<".", "/", "x">>
S_rel_up_y ==
    <<".", ".", "/", "y">>
S_fw_x ==
    <<"U+FF0E", "/", "x">>
S_lig_fix ==
    <<"U+FB01", "x">>
S_reg_ui_bare ==
    <<"~", "/", "r", "e", "g", "i", "s", "t", "r", "y", "/", "u", "i">>
S_reg_ui_slash ==
    <<"~", "/", "r", "e", "g", "i", "s", "t", "r", "y", "/", "u", "i", "/">>
S_reg_uix_foo ==
    <<"~", "/", "r", "e", "g", "i", "s", "t", "r", "y", "/", "u", "i", "x", "/", "f", "o", "o">>
S_num_x_foo ==
    <<"1", "/", "x", "/", "f", "o", "o">>
S_reg_ui_dollar ==
    <<"~", "/", "r", "e", "g", "i", "s", "t", "r", "y", "/", "u", "i", "/", "a", "$", "&", "b">>
\* alias prefixes and URL templates
S_reg_ui ==
    <<"~", "/", "r", "e", "g", "i", "s", "t", "r", "y", "/", "u", "i">>
S_reg ==
    <<"~", "/", "r", "e", "g", "i", "s", "t", "r", "y">>
S_num ==
    <<"1">>
S_num_x ==
    <<"1", "/", "x">>
S_url_x ==
    <<"h", "t", "t", "p", "s", ":", "/", "/", "x", ".", "t", "e", "s", "t", "/", "{", "n", "a", "m", "e", "}", ".", "j", "s", "o", "n">>
S_url_r ==
    <<"h", "t", "t", "p", "s", ":", "/", "/", "r", ".", "t", "e", "s", "t", "/", "{", "n", "a", "m", "e", "}">>
S_url_n ==
    <<"h", "t", "t", "p", "s", ":", "/", "/", "n", ".", "t", "e", "s", "t", "/", "{", "n", "a", "m", "e", "}">>
S_url_m ==
    <<"h", "t", "t", "p", "s", ":", "/", "/", "m", ".", "t", "e", "s", "t", "/", "{", "n", "a", "m", "e", "}">>
S_url_x_foo ==
    <<"h", "t", "t", "p", "s", ":", "/", "/", "x", ".", "t", "e", "s", "t", "/", "f", "o", "o", ".", "j", "s", "o", "n">>
\* query parameters
S_k_v ==
    <<"v">>
S_v_1 ==
    <<"1">>
S_k_ab ==
    <<"a", " ", "b">>
S_v_xy ==
    <<"x", "/", "y">>

\* ------------------------------------------------------------------------
\* Object property enumeration (Object.entries / Object.keys)
\* ------------------------------------------------------------------------

Digits ==
    <<"0", "1", "2", "3", "4", "5", "6", "7", "8", "9">>

\* A property key that is a canonical array index ("0", "7", "42"): such
\* keys are enumerated before all others, in ascending numeric order.
IsArrayIndex(key) ==
    /\ key # <<>>
    /\ \A i \in 1..Len(key) : key[i] \in Range(Digits)
    /\ (Len(key) > 1 => key[1] # "0")

RECURSIVE NumericValue(_)
NumericValue(key) ==
    IF key = <<>> THEN 0
    ELSE 10 * NumericValue(SubSeq(key, 1, Len(key) - 1))
         + ((CHOOSE d \in 1..Len(Digits) : Digits[d] = key[Len(key)]) - 1)

\* Insertion of an array-index keyed entry into a list ascending by index.
RECURSIVE InsertByIndex(_, _)
InsertByIndex(sorted, e) ==
    IF sorted = <<>> THEN <<e>>
    ELSE IF NumericValue(e[1]) < NumericValue(Head(sorted)[1]) THEN <<e>> \o sorted
    ELSE <<Head(sorted)>> \o InsertByIndex(Tail(sorted), e)

RECURSIVE SortByIndex(_)
SortByIndex(es) ==
    IF es = <<>> THEN <<>>
    ELSE InsertByIndex(SortByIndex(Tail(es)), Head(es))

\* Object.entries(obj) for an object written as the list defined of
\* <<key, value>> pairs in definition order: array-index keys first in
\* ascending numeric order, then the string keys in definition order.
ObjectEntries(defined) ==
    SortByIndex(SelectSeq(defined, LAMBDA e : IsArrayIndex(e[1])))
    \o SelectSeq(defined, LAMBDA e : ~IsArrayIndex(e[1]))

\* ------------------------------------------------------------------------
\* src/utils/utils.ts
\* ------------------------------------------------------------------------

\* getPackageName(dep)
getPackageName(dep) ==
    LET parts == SplitSlash(dep)
    IN  IF StartsWith(dep, <<"@">>)
        THEN IF Len(parts) >= 2 /\ parts[1] # <<>> /\ parts[2] # <<>>
             THEN parts[1] \o <<"/">> \o parts[2]
             ELSE dep
        ELSE parts[1]

\* escapeRegExp followed by new RegExp("^" + escapedPrefix + "(?:/|$)").test(dep):
\* every metacharacter of the prefix is escaped, so the pattern matches the
\* prefix literally at the start of dep, followed by '/' or the end.
PrefixRegexTest(normalizedPrefix, dep) ==
    /\ StartsWith(dep, normalizedPrefix)
    /\ \/ Len(dep) = Len(normalizedPrefix)
       \/ dep[Len(normalizedPrefix) + 1] = "/"

\* ------------------------------------------------------------------------
\* src/utils/dependencies.ts: the patterns and the URL construction
\* ------------------------------------------------------------------------

\* IGNORE_UTILS_REGEX anchored at the start only: /^lib\/utils$/
IGNORE_UTILS_REGEX_WholeOnly(dep) ==
    dep = S_lib_utils

\* IGNORE_UTILS_REGEX.test(dep): /(?:^|\/)lib\/utils$/
IGNORE_UTILS_REGEX(dep) ==
    \/ dep = S_lib_utils
    \/ EndsWith(dep, <<"/">> \o S_lib_utils)

\* The positions at which SHADCN_REGEX can match: "components/ui/" at the
\* start of the string or right after a '/', followed by a character
\* other than '/'.
ShadcnMatchStarts(dep) ==
    {i \in 1..Len(dep) :
        /\ (i = 1 \/ dep[i - 1] = "/")
        /\ i + Len(S_components_ui) <= Len(dep)
        /\ SubSeq(dep, i, i + Len(S_components_ui) - 1) = S_components_ui
        /\ dep[i + Len(S_components_ui)] # "/"}

\* SHADCN_REGEX capturing to the end of the literal: ...\/(.+)/
SHADCN_REGEX_ToEnd(dep) ==
    LET starts == ShadcnMatchStarts(dep)
    IN  IF starts = {} THEN <<>>
        ELSE LET i == CHOOSE x \in starts : \A y \in starts : x <= y
             IN  SubSeq(dep, i + Len(S_components_ui), Len(dep))

\* SHADCN_REGEX.exec(dep)?.[1]: /(?:^|\/)components\/ui\/([^/]+)/, the
\* capture of the left-most match; <<>> when there is no match.
SHADCN_REGEX(dep) ==
    LET starts == ShadcnMatchStarts(dep)
    IN  IF starts = {} THEN <<>>
        ELSE LET i    == CHOOSE x \in starts : \A y \in starts : x <= y
                 rest == SubSeq(dep, i + Len(S_components_ui), Len(dep))
             IN  SplitSlash(rest)[1]

\* The replacement text String.prototype.replace builds from a replacement
\* string: "$$" gives "$", "$&" the matched text, "$" and a grave accent the text before the
\* match; any other character stands for itself.
RECURSIVE GetSubstitution(_, _, _)
GetSubstitution(replacement, matched, before) ==
    IF replacement = <<>> THEN <<>>
    ELSE IF Len(replacement) >= 2 /\ replacement[1] = "$" /\ replacement[2] = "$"
    THEN <<"$">> \o GetSubstitution(Slice(replacement, 2), matched, before)
    ELSE IF Len(replacement) >= 2 /\ replacement[1] = "$" /\ replacement[2] = "&"
    THEN matched \o GetSubstitution(Slice(replacement, 2), matched, before)
    ELSE IF Len(replacement) >= 2 /\ replacement[1] = "$" /\ replacement[2] = "U+0060"
    THEN before \o GetSubstitution(Slice(replacement, 2), matched, before)
    ELSE <<Head(replacement)>> \o GetSubstitution(Tail(replacement), matched, before)

\* urlTemplate.replace('{name}', name): the first occurrence only.
ReplaceName(urlTemplate, name) ==
    LET i == IndexOf(urlTemplate, S_name_placeholder)
    IN  IF i = 0 THEN urlTemplate
        ELSE SubSeq(urlTemplate, 1, i - 1)
             \o GetSubstitution(name, S_name_placeholder, SubSeq(urlTemplate, 1, i - 1))
             \o SubSeq(urlTemplate, i + Len(S_name_placeholder), Len(urlTemplate))

HexDigits ==
    <<"0", "1", "2", "3", "4", "5", "6", "7", "8", "9", "A", "B", "C", "D", "E", "F">>

\* The characters the application/x-www-form-urlencoded serializer leaves
\* as they are: ASCII alphanumerics and * - . _
UrlSafe(c) ==
    \/ CodeUnit(c) \in (48..57) \cup (65..90) \cup (97..122)
    \/ c \in {"*", "-", ".", "_"}

\* One code unit in URLSearchParams.prototype.toString(): space becomes
\* '+', every other unsafe character the %HH of its UTF-8 bytes.
UrlEncodeChar(c) ==
    IF UrlSafe(c) THEN <<c>>
    ELSE IF c = " " THEN <<"+">>
    ELSE IF c = "U+FB01" THEN <<"%", "E", "F", "%", "A", "C", "%", "8", "1">>
    ELSE IF c = "U+FF0E" THEN <<"%", "E", "F", "%", "B", "C", "%", "8", "E">>
    ELSE <<"%", HexDigits[(CodeUnit(c) \div 16) + 1], HexDigits[(CodeUnit(c) % 16) + 1]>>

RECURSIVE UrlEncode(_)
UrlEncode(s) ==
    IF s = <<>> THEN <<>>
    ELSE UrlEncodeChar(Head(s)) \o UrlEncode(Tail(s))

\* new URLSearchParams(params).toString(): name=value pairs joined by '&',
\* in the record's property enumeration order.
RECURSIVE SearchParamsToString(_)
SearchParamsToString(entries) ==
    IF entries = <<>> THEN <<>>
    ELSE UrlEncode(entries[1][1]) \o <<"=">> \o UrlEncode(entries[1][2])
         \o (IF Len(entries) > 1 THEN <<"&">> ELSE <<>>)
         \o SearchParamsToString(Tail(entries))

\* The record the preprocessing builds for one alias entry <<prefix, value>>
\* (value: [kind, url, params], kind "string" for a plain string entry;
\* params is <<>> when the entry gives none).
RegistryMatcher(entry) ==
    LET normalizedPrefix == NormalizeNFKC(entry[1])
    IN  [prefixLength     |-> Len(normalizedPrefix),
         normalizedPrefix |-> normalizedPrefix,
         urlTemplate      |-> entry[2].url,
         params           |-> IF entry[2].kind = "string" THEN <<>> ELSE entry[2].params]

\* registryMatchers: Object.entries(registryConfig).map(...)
RegistryMatchers(registryConfig) ==
    LET entries == ObjectEntries(registryConfig)
    IN  [i \in 1..Len(entries) |-> RegistryMatcher(entries[i])]

\* The URL stored for a matcher and a non-empty component name.
BuildUrl(item, name) ==
    LET url == ReplaceName(item.urlTemplate, name)
    IN  IF Len(item.params) > 0
        THEN url \o <<"?">> \o SearchParamsToString(ObjectEntries(item.params))
        ELSE url

\* ------------------------------------------------------------------------
\* src/utils/dependencies.ts: getDependencies
\* ------------------------------------------------------------------------

VALID_EXTENSIONS ==
    {"vue", "js", "jsx", "ts", "tsx"}

knownThirdPartyLibs ==
    {S_vue_router, S_pinia, S_vue, S_unplugin_vue_components, S_unplugin_auto_import}

\* The files scanned: the given list filtered by its three suffixes, or
\* the glob of the directory for every valid extension.
FilesToScan(given, list) ==
    IF given
    THEN SelectSeq(list, LAMBDA f : f.ext \in {"vue", "ts", "js"})
    ELSE SelectSeq(list, LAMBDA f : f.ext \in VALID_EXTENSIONS)

NoClassification ==
    [bucket |-> "none", value |-> <<>>]

\* IsRelativeImport testing for './' only: '../y' is not skipped.
IsRelativeImport_DotSlashOnly(originalDep) ==
    StartsWith(originalDep, <<".", "/">>)

\* originalDep.startsWith('.')
IsRelativeImport(originalDep) ==
    StartsWith(originalDep, <<".">>)

\* RegistryHit going on to the next matcher when the component name is
\* empty (continue where the code breaks).
RegistryHit_ContinueOnEmpty(dep, matchers) ==
    LET hits == {i \in 1..Len(matchers) :
                    /\ PrefixRegexTest(matchers[i].normalizedPrefix, dep)
                    /\ Slice(dep, matchers[i].prefixLength + 1) # <<>>}
    IN  IF hits = {} THEN NoClassification
        ELSE LET item == matchers[CHOOSE i \in hits : \A j \in hits : i <= j]
             IN  [bucket |-> "registryDependencies",
                  value  |-> BuildUrl(item, Slice(dep, item.prefixLength + 1))]

\* The alias loop: the first matcher whose regex matches decides; an empty
\* component name breaks out of the loop without a URL.
RegistryHit(dep, matchers) ==
    LET hits == {i \in 1..Len(matchers) :
                    PrefixRegexTest(matchers[i].normalizedPrefix, dep)}
    IN  IF hits = {} THEN NoClassification
        ELSE LET item == matchers[CHOOSE i \in hits : \A j \in hits : i <= j]
                 name == Slice(dep, item.prefixLength + 1)
             IN  IF name = <<>> THEN NoClassification
                 ELSE [bucket |-> "registryDependencies", value |-> BuildUrl(item, name)]

\* DefaultCase without the '@/registry/' rule: always the literal itself.
DefaultCase_Verbatim(dep) ==
    dep

\* The default case: the last segment of an '@/registry/...' path, else
\* the literal itself.
DefaultCase(dep) ==
    LET parts == SplitSlash(dep)
    IN  IF StartsWith(dep, S_at_registry) /\ Len(parts) >= 3 /\ parts[Len(parts)] # <<>>
        THEN parts[Len(parts)]
        ELSE dep

\* The body of the loop over the matches of one file: what one import
\* literal adds, and to which of the three Sets.
ClassifyImport(originalDep, depSet, devDepSet, matchers) ==
    IF originalDep = <<>> THEN NoClassification
    ELSE IF IsRelativeImport(originalDep) THEN NoClassification
    ELSE LET dep     == NormalizeNFKC(originalDep)
             pkgName == getPackageName(dep)
             hit     == RegistryHit(dep, matchers)
         IN  IF IGNORE_UTILS_REGEX(dep) THEN NoClassification
             ELSE IF pkgName \in knownThirdPartyLibs THEN NoClassification
             ELSE IF pkgName \in Range(depSet)
             THEN [bucket |-> "dependencies", value |-> pkgName]
             ELSE IF pkgName \in Range(devDepSet)
             THEN [bucket |-> "devDependencies", value |-> pkgName]
             ELSE IF SHADCN_REGEX(dep) # <<>>
             THEN [bucket |-> "registryDependencies", value |-> SHADCN_REGEX(dep)]
             ELSE IF hit.bucket # "none" THEN hit
             ELSE [bucket |-> "registryDependencies", value |-> DefaultCase(dep)]

VARIABLES
    compiledDependencies,     \* argument: production dependency names
    compiledDevDependencies,  \* argument: development dependency names
    registries,               \* argument shadcnConfig.registries, as written
    listing,                  \* options.files, or the files of directory dir
    explicit,                 \* whether options.files is given
    pc,                       \* "config", "idle", "scan" or "done"
    calls,                    \* number of calls started
    files,                    \* local: the files to scan
    fileIdx,                  \* local: position of the outer loop
    matchIdx,                 \* local: position of the inner loop
    dependencies,             \* local Set
    devDependencies,          \* local Set
    registryDependencies,     \* local Set
    result,                   \* the value returned by the last call
    prevResult                \* the value returned by the call before it

VARIABLES
    call,                     \* the call of a function in progress: name and arguments
    returned,                 \* the value that call returned
    typeCache,                \* types.ts: the module-level Map path -> type
    typeCalls,                \* number of calls made on the type module
    project,                  \* what is on disk when a generation run starts
    bpc,                      \* position of the generation run
    loaded,                   \* the run's dependency lists and alias table
    componentEntries,         \* the run's component units
    registryItems,            \* the run's registry items
    pkgDependencies,          \* the run's classification result, one per registry item
    registryJson,             \* the registry.json file on disk
    configDisk,               \* registry.config.ts of each directory, and the init runs made
    thrown,                   \* the error the run failed with
    listed,                   \* number of file listings (glob calls) of the run
    scanned                   \* number of getDependencies calls of the run

inputs ==
    <<compiledDependencies, compiledDevDependencies, registries, listing, explicit>>

\* The variables of a getDependencies call.
scanVars ==
    <<compiledDependencies, compiledDevDependencies, registries, listing, explicit,
      pc, calls, files, fileIdx, matchIdx,
      dependencies, devDependencies, registryDependencies, result, prevResult>>

callVars ==
    <<call, returned>>

typeVars ==
    <<typeCache, typeCalls>>

buildVars ==
    <<project, bpc, loaded, componentEntries, registryItems, pkgDependencies, registryJson,
      configDisk,
      thrown, listed, scanned>>

\* The variables a getDependencies call does not touch.
others ==
    <<callVars, typeVars, buildVars>>

vars ==
    <<scanVars, callVars, typeVars, buildVars>>

NoValue ==
    "none"

\* No function call in progress.
NoCall ==
    [fn |-> "none"]

\* The call in progress has not returned.
NotReturned ==
    [done |-> FALSE]

Returned(value) ==
    [done |-> TRUE, value |-> value]

CallIdle ==
    /\ call = NoCall
    /\ returned = NotReturned

\* The type module as loaded: an empty cache.
TypeIdle ==
    /\ typeCache = {}
    /\ typeCalls = 0

\* The configuration of a run before it is loaded.
NotLoaded ==
    [done |-> FALSE]

\* No registry.config.ts anywhere, no init run made.
NoConfigDisk ==
    [inits |-> 0]

\* registry.json before any run wrote it.
NoFile ==
    [writes |-> 0, items |-> <<>>]

\* No generation run.
BuildIdle ==
    /\ project = NoValue
    /\ bpc = "idle"
    /\ loaded = NotLoaded
    /\ componentEntries = <<>>
    /\ registryItems = <<>>
    /\ pkgDependencies = <<>>
    /\ registryJson = NoFile
    /\ configDisk = NoConfigDisk
    /\ thrown = NoValue
    /\ listed = 0
    /\ scanned = 0

EmptyResult ==
    [dependencies |-> <<>>, devDependencies |-> <<>>, registryDependencies |-> <<>>]

\* All sequences over S of length at most n.
BoundedSeq(S, n) ==
    UNION {[1..k -> S] : k \in 0..n}

RECURSIVE SumSeq(_)
SumSeq(ns) ==
    IF ns = <<>> THEN 0 ELSE Head(ns) + SumSeq(Tail(ns))

\* The sequence flat cut into consecutive pieces of the given sizes.
RECURSIVE Cut(_, _)
Cut(flat, sizes) ==
    IF sizes = <<>> THEN <<>>
    ELSE <<SubSeq(flat, 1, Head(sizes))>>
         \o Cut(SubSeq(flat, Head(sizes) + 1, Len(flat)), Tail(sizes))

\* Every list of at most maxFiles files, with extensions from exts, that
\* together hold at most maxImports import literals from literals.
Listings(literals, exts, maxFiles, maxImports) ==
    {[i \in 1..Len(sizes) |-> [ext |-> extOf[i], imports |-> Cut(flat, sizes)[i]]] :
        <<flat, sizes, extOf>> \in
            {t \in BoundedSeq(literals, maxImports)
                   \X BoundedSeq(0..maxImports, maxFiles)
                   \X BoundedSeq(exts, maxFiles) :
                /\ Len(t[2]) = Len(t[3])
                /\ SumSeq(t[2]) = Len(t[1])}}

\* The state in which getDependencies has not been called yet, for each
\* configuration of configs and each listing.
InitWith(configs, literals, exts, modes, maxFiles, maxImports) ==
    /\ \E c \in configs :
        /\ compiledDependencies = c.dependencies
        /\ compiledDevDependencies = c.devDependencies
        /\ registries = c.registries
    /\ listing \in Listings(literals, exts, maxFiles, maxImports)
    /\ explicit \in modes
    /\ pc = "idle"
    /\ calls = 0
    /\ files = <<>>
    /\ fileIdx = 1
    /\ matchIdx = 1
    /\ dependencies = <<>>
    /\ devDependencies = <<>>
    /\ registryDependencies = <<>>
    /\ result = EmptyResult
    /\ prevResult = EmptyResult
    /\ CallIdle
    /\ TypeIdle
    /\ BuildIdle

\* Entry of getDependencies: the file list, the three empty Sets.
GetDependenciesCall ==
    /\ pc = "idle"
    /\ pc' = "scan"
    /\ calls' = calls + 1
    /\ files' = FilesToScan(explicit, listing)
    /\ fileIdx' = 1
    /\ matchIdx' = 1
    /\ dependencies' = <<>>
    /\ devDependencies' = <<>>
    /\ registryDependencies' = <<>>
    /\ UNCHANGED <<inputs, result, prevResult>>
    /\ UNCHANGED others

\* The literal the inner loop is about to process.
CurrentImport ==
    files[fileIdx].imports[matchIdx]

AtImport ==
    /\ pc = "scan"
    /\ fileIdx <= Len(files)
    /\ matchIdx <= Len(files[fileIdx].imports)

\* One iteration of the inner loop.
ProcessMatch ==
    /\ AtImport
    /\ LET c == ClassifyImport(CurrentImport, NewSet(compiledDependencies),
                               NewSet(compiledDevDependencies),
                               RegistryMatchers(registries))
       IN  /\ dependencies' =
                IF c.bucket = "dependencies"
                THEN SetAdd(dependencies, c.value) ELSE dependencies
           /\ devDependencies' =
                IF c.bucket = "devDependencies"
                THEN SetAdd(devDependencies, c.value) ELSE devDependencies
           /\ registryDependencies' =
                IF c.bucket = "registryDependencies"
                THEN SetAdd(registryDependencies, c.value) ELSE registryDependencies
    /\ matchIdx' = matchIdx + 1
    /\ UNCHANGED <<inputs, pc, calls, files, fileIdx, result, prevResult>>
    /\ UNCHANGED others

\* The matches of the current file are exhausted: the next file.
NextFile ==
    /\ pc = "scan"
    /\ fileIdx <= Len(files)
    /\ matchIdx > Len(files[fileIdx].imports)
    /\ fileIdx' = fileIdx + 1
    /\ matchIdx' = 1
    /\ UNCHANGED <<inputs, pc, calls, files,
                   dependencies, devDependencies, registryDependencies,
                   result, prevResult>>
    /\ UNCHANGED others

\* GetDependenciesReturn sorting the caller's dependency array in place.
GetDependenciesReturn_SortsArgument ==
    /\ pc = "scan"
    /\ fileIdx > Len(files)
    /\ pc' = "done"
    /\ compiledDependencies' = ArraySort(compiledDependencies)
    /\ result' = [dependencies         |-> ArraySort(dependencies),
                  devDependencies      |-> ArraySort(devDependencies),
                  registryDependencies |-> ArraySort(registryDependencies)]
    /\ UNCHANGED <<compiledDevDependencies, registries, listing, explicit,
                   calls, files, fileIdx, matchIdx,
                   dependencies, devDependencies, registryDependencies, prevResult>>
    /\ UNCHANGED others

\* The return statement: the three Sets as sorted arrays.
GetDependenciesReturn ==
    /\ pc = "scan"
    /\ fileIdx > Len(files)
    /\ pc' = "done"
    /\ result' = [dependencies         |-> ArraySort(dependencies),
                  devDependencies      |-> ArraySort(devDependencies),
                  registryDependencies |-> ArraySort(registryDependencies)]
    /\ UNCHANGED <<inputs, calls, files, fileIdx, matchIdx,
                   dependencies, devDependencies, registryDependencies, prevResult>>
    /\ UNCHANGED others

Next ==
    \/ GetDependenciesCall
    \/ ProcessMatch
    \/ NextFile
    \/ GetDependenciesReturn

\* ------------------------------------------------------------------------
\* Bounds and inputs
\* ------------------------------------------------------------------------

\* At most this many files in a listing.
MaxFiles ==
    2

\* At most this many import literals in the files of a listing together.
MaxImports ==
    3

\* The same bound for the specifications whose properties speak of one
\* literal or of two literals in a row.
MaxImportsPair ==
    2

StringEntry(url) ==
    [kind |-> "string", url |-> url, params |-> <<>>]

ObjectEntry(url, params) ==
    [kind |-> "object", url |-> url, params |-> params]

Config(deps, devDeps, regs) ==
    [dependencies |-> deps, devDependencies |-> devDeps, registries |-> regs]

\* The end-to-end scenario: vue declared, vite a development dependency,
\* one alias entry.
ScenarioConfig ==
    Config(<<S_vue>>, <<S_vite>>, <<<<S_reg_ui, StringEntry(S_url_x)>>>>)

CoreConfigs ==
    {ScenarioConfig,
     Config(<<S_b, S_a>>, <<S_b>>, <<>>),
     Config(<<>>, <<S_a>>, <<>>),
     Config(<<>>, <<>>, <<<<S_a, StringEntry(S_url_r)>>>>)}

CoreLiterals ==
    {S_vue, S_reg_ui_foo, S_local, S_rel_up_y, S_b, S_a_lib_utils, S_a_x}

Init ==
    InitWith(CoreConfigs, CoreLiterals, {"vue"}, {FALSE}, MaxFiles, MaxImports)

Spec ==
    Init /\ [][Next]_vars

\* ------------------------------------------------------------------------
\* Properties of the classification (specification Spec)
\* ------------------------------------------------------------------------

\* The literal the inner loop processed last in the current file.
PreviousImport ==
    files[fileIdx].imports[matchIdx - 1]

AfterImport ==
    /\ pc = "scan"
    /\ fileIdx <= Len(files)
    /\ matchIdx > 1

\* The literal at hand is neither relative nor a lib/utils path.
CurrentIsTracked ==
    /\ AtImport
    /\ ~StartsWith(CurrentImport, <<".">>)
    /\ NormalizeNFKC(CurrentImport) # S_lib_utils
    /\ ~EndsWith(NormalizeNFKC(CurrentImport), <<"/">> \o S_lib_utils)

CurrentPackage ==
    getPackageName(NormalizeNFKC(CurrentImport))

\* C1: a literal (neither relative nor ignored) whose package name is a
\* declared production dependency puts that package name into
\* dependencies and leaves devDependencies and
\* registryDependencies as they were, also when the name is a declared
\* development dependency as well.
C1_DeclaredDependencyWins ==
    [][(CurrentIsTracked /\ CurrentPackage \in Range(compiledDependencies))
        => /\ CurrentPackage \in Range(dependencies')
           /\ dependencies' = SetAdd(dependencies, CurrentPackage)
           /\ UNCHANGED <<devDependencies, registryDependencies>>]_vars

\* C2: the end-to-end scenario (vue declared, vite a development
\* dependency, the alias ~/registry/ui, one file importing 'vue',
\* '~/registry/ui/foo' and './local') returns dependencies ["vue"], no
\* devDependencies and registryDependencies ["https://x.test/foo.json"].
C2_Scenario ==
    /\ compiledDependencies = <<S_vue>>
    /\ compiledDevDependencies = <<S_vite>>
    /\ registries = <<<<S_reg_ui, StringEntry(S_url_x)>>>>
    /\ Len(files) = 1
    /\ files[1].imports = <<S_vue, S_reg_ui_foo, S_local>>

C2_EndToEnd ==
    (pc = "done" /\ C2_Scenario)
        => result = [dependencies         |-> <<S_vue>>,
                     devDependencies      |-> <<>>,
                     registryDependencies |-> <<S_url_x_foo>>]

\* C3: every literal that is processed (neither relative nor ignored) goes
\* into exactly one Set, chosen by the precedence dependencies, then
\* devDependencies, then registryDependencies (pattern, alias, catch-all).
C3_ExactlyOneBucket ==
    [][CurrentIsTracked
        => IF CurrentPackage \in Range(compiledDependencies)
           THEN /\ CurrentPackage \in Range(dependencies')
                /\ UNCHANGED <<devDependencies, registryDependencies>>
           ELSE IF CurrentPackage \in Range(compiledDevDependencies)
           THEN /\ CurrentPackage \in Range(devDependencies')
                /\ devDependencies' = SetAdd(devDependencies, CurrentPackage)
                /\ UNCHANGED <<dependencies, registryDependencies>>
           ELSE /\ \E v \in Range(registryDependencies') :
                        registryDependencies' = SetAdd(registryDependencies, v)
                /\ UNCHANGED <<dependencies, devDependencies>>]_vars

\* C4: a literal beginning with '.' adds nothing to any of the three Sets,
\* and a scan that met only such literals returns three empty lists.
OnlyRelativeImports ==
    \A i \in 1..Len(files) : \A j \in 1..Len(files[i].imports) :
        files[i].imports[j][1] = "."

C4_RelativeAddsNothing ==
    [][/\ (AtImport /\ CurrentImport[1] = ".")
            => UNCHANGED <<dependencies, devDependencies, registryDependencies>>
       /\ (pc' = "done" /\ OnlyRelativeImports') => result' = EmptyResult]_vars

\* Witness of C4: '../y' has just been processed in a scan that had
\* already stored something.
C4_Witness ==
    /\ AfterImport
    /\ PreviousImport = S_rel_up_y
    /\ registryDependencies # <<>>

\* C5: a literal whose normalized form is 'lib/utils' or ends in
\* '/lib/utils' adds nothing to any Set, whatever is declared.
C5_LibUtilsAddsNothing ==
    [][(/\ AtImport
        /\ \/ NormalizeNFKC(CurrentImport) = S_lib_utils
           \/ EndsWith(NormalizeNFKC(CurrentImport), <<"/">> \o S_lib_utils))
        => UNCHANGED <<dependencies, devDependencies, registryDependencies>>]_vars

\* Witness of C5: 'a/lib/utils' has just been processed while package a is
\* a declared dependency and another declared package was already stored.
C5_Witness ==
    /\ AfterImport
    /\ PreviousImport = S_a_lib_utils
    /\ S_a \in Range(compiledDependencies)
    /\ dependencies # <<>>
    /\ S_a \notin Range(dependencies)

\* C6: each returned list is strictly ascending (sorted, no duplicate) and
\* holds exactly the elements of its Set.
StrictlyAscending(list) ==
    \A i \in 1..(Len(list) - 1) : StrLess(list[i], list[i + 1])

C6_SortedNoDuplicates ==
    pc = "done"
        => /\ StrictlyAscending(result.dependencies)
           /\ StrictlyAscending(result.devDependencies)
           /\ StrictlyAscending(result.registryDependencies)
           /\ Range(result.dependencies) = Range(dependencies)
           /\ Range(result.devDependencies) = Range(devDependencies)
           /\ Range(result.registryDependencies) = Range(registryDependencies)

\* Witness of C6: two files import the same package, and the sort
\* reordered what the scan had stored.
C6_Witness ==
    /\ pc = "done"
    /\ Len(files) = 2
    /\ Range(files[1].imports) \cap Range(files[2].imports) # {}
    /\ Len(result.dependencies) = 2
    /\ result.dependencies # dependencies

\* ------------------------------------------------------------------------
\* Unicode-equivalent literals (specification SpecUnicode)
\* ------------------------------------------------------------------------

UnicodeConfigs ==
    {Config(<<>>, <<>>, <<>>),
     Config(<<S_fix>>, <<>>, <<>>),
     Config(<<>>, <<S_fix>>, <<<<S_dot, StringEntry(S_url_r)>>>>)}

\* './x' and its fullwidth spelling, 'fix' and its ligature spelling.
UnicodeLiterals ==
    {S_rel_x, S_fw_x, S_fix, S_lig_fix, S_b}

InitUnicode ==
    InitWith(UnicodeConfigs, UnicodeLiterals, {"vue"}, {FALSE}, MaxFiles, MaxImportsPair)

SpecUnicode ==
    InitUnicode /\ [][Next]_vars

\* C7: of two literals with the same NFKC form met one after the other,
\* the second is classified as the first was, so it adds no new entry.
C7_EquivalentLiteralsCollapse ==
    [][(/\ AtImport
        /\ matchIdx > 1
        /\ NormalizeNFKC(CurrentImport) = NormalizeNFKC(PreviousImport))
        => UNCHANGED <<dependencies, devDependencies, registryDependencies>>]_vars

\* ------------------------------------------------------------------------
\* Repeated calls (specification SpecRepeat)
\* ------------------------------------------------------------------------

\* At most this many calls with the same arguments.
MaxCalls ==
    2

RepeatConfigs ==
    {ScenarioConfig,
     Config(<<S_b, S_a>>, <<S_b>>, <<<<S_a, StringEntry(S_url_r)>>>>)}

RepeatLiterals ==
    {S_vue, S_reg_ui_foo, S_local, S_b, S_a_x}

InitRepeat ==
    InitWith(RepeatConfigs, RepeatLiterals, {"vue", "tsx"}, {FALSE, TRUE},
             MaxFiles, MaxImportsPair)

\* The caller keeps the value returned and calls again with the same
\* arguments.
CallAgain ==
    /\ pc = "done"
    /\ calls < MaxCalls
    /\ pc' = "idle"
    /\ prevResult' = result
    /\ UNCHANGED <<inputs, calls, files, fileIdx, matchIdx,
                   dependencies, devDependencies, registryDependencies, result>>
    /\ UNCHANGED others

NextRepeat ==
    \/ Next
    \/ CallAgain

SpecRepeat ==
    InitRepeat /\ [][NextRepeat]_vars

\* C8: no step of a call changes the arguments, and a second call with the
\* same arguments returns what the first returned.
C8_Repeatable ==
    [][/\ inputs' = inputs
       /\ (pc' = "done" /\ calls' > 1) => result' = prevResult']_vars

\* Witness of C8: the second call has returned a non-empty classification.
C8_Witness ==
    /\ pc = "done"
    /\ calls = 2
    /\ result = prevResult
    /\ result.dependencies # <<>>
    /\ result.registryDependencies # <<>>

\* ------------------------------------------------------------------------
\* The alias table (specification SpecAlias)
\* ------------------------------------------------------------------------

AliasUiOnly ==
    <<<<S_reg_ui, StringEntry(S_url_x)>>>>

AliasBroadFirst ==
    <<<<S_reg, ObjectEntry(S_url_r, <<>>)>>, <<S_reg_ui, StringEntry(S_url_x)>>>>

AliasNarrowFirst ==
    <<<<S_reg_ui, StringEntry(S_url_x)>>, <<S_reg, ObjectEntry(S_url_r, <<>>)>>>>

AliasNumeric ==
    <<<<S_num_x, StringEntry(S_url_n)>>, <<S_num, StringEntry(S_url_m)>>>>

AliasWithParams ==
    <<<<S_reg_ui, ObjectEntry(S_url_x, <<<<S_k_ab, S_v_xy>>, <<S_k_v, S_v_1>>>>)>>>>

AliasConfigs ==
    {Config(<<>>, <<>>, AliasUiOnly),
     Config(<<>>, <<>>, AliasBroadFirst),
     Config(<<>>, <<>>, AliasNarrowFirst),
     Config(<<>>, <<>>, AliasNumeric),
     Config(<<>>, <<>>, AliasWithParams)}

AliasLiterals ==
    {S_reg_ui_foo, S_reg_ui_bare, S_reg_ui_slash, S_reg_uix_foo, S_num_x_foo,
     S_reg_ui_dollar}

InitAlias ==
    InitWith(AliasConfigs, AliasLiterals, {"vue"}, {FALSE}, MaxFiles, MaxImportsPair)

SpecAlias ==
    InitAlias /\ [][Next]_vars

\* The literal at hand reaches the alias step: it is tracked, its package
\* is neither a known library nor declared, and it is no components/ui path.
CurrentReachesAlias ==
    /\ CurrentIsTracked
    /\ CurrentPackage \notin knownThirdPartyLibs
    /\ CurrentPackage \notin Range(compiledDependencies)
    /\ CurrentPackage \notin Range(compiledDevDependencies)
    /\ ShadcnMatchStarts(NormalizeNFKC(CurrentImport)) = {}

\* The prefix is followed in dep by '/' or by the end of dep.
PrefixMatches(prefix, dep) ==
    /\ Len(prefix) <= Len(dep)
    /\ \A i \in 1..Len(prefix) : dep[i] = prefix[i]
    /\ (Len(dep) > Len(prefix) => dep[Len(prefix) + 1] = "/")

\* What the alias step must store for dep when the entries are tested in
\* the order of the list entries: the URL of the first entry whose prefix
\* matches if the remainder is not empty, else the catch-all value.
AliasOutcome(entries, dep) ==
    LET matching == {i \in 1..Len(entries) :
                        PrefixMatches(NormalizeNFKC(entries[i][1]), dep)}
        first    == CHOOSE i \in matching : \A j \in matching : i <= j
        rest     == SubSeq(dep, Len(NormalizeNFKC(entries[first][1])) + 2, Len(dep))
    IN  IF matching = {} \/ rest = <<>>
        THEN DefaultCase(dep)
        ELSE BuildUrl(RegistryMatcher(entries[first]), rest)

\* C9 as stated: the entries are tested in the order the table defines
\* them.
C9_DefinitionOrder ==
    [][CurrentReachesAlias
        => /\ registryDependencies' =
                SetAdd(registryDependencies,
                       AliasOutcome(registries, NormalizeNFKC(CurrentImport)))
           /\ UNCHANGED <<dependencies, devDependencies>>]_vars

\* C9 as amended: the entries are tested in the table's property
\* enumeration order (array-index keys first, ascending; then the other
\* keys in definition order); the first entry whose prefix matches decides,
\* and an empty remainder leaves the literal to the catch-all.
C9_EnumerationOrder ==
    [][CurrentReachesAlias
        => /\ registryDependencies' =
                SetAdd(registryDependencies,
                       AliasOutcome(ObjectEntries(registries),
                                    NormalizeNFKC(CurrentImport)))
           /\ UNCHANGED <<dependencies, devDependencies>>]_vars

\* Witness of C9: the bare prefix '~/registry/ui' has just been processed
\* under a table whose first entry matches it with an empty remainder and
\* whose second entry would have given a URL; the literal itself is stored.
C9_Witness ==
    /\ AfterImport
    /\ PreviousImport = S_reg_ui_bare
    /\ registries = AliasNarrowFirst
    /\ registryDependencies = <<S_reg_ui_bare>>

\* The template with its first {name} replaced by the text of name.
PlainReplace(urlTemplate, name) ==
    LET i == IndexOf(urlTemplate, S_name_placeholder)
    IN  IF i = 0 THEN urlTemplate
        ELSE SubSeq(urlTemplate, 1, i - 1) \o name
             \o SubSeq(urlTemplate, i + Len(S_name_placeholder), Len(urlTemplate))

\* The literal at hand is decided by an alias entry: the matcher.
CurrentAliasItem ==
    LET dep      == NormalizeNFKC(CurrentImport)
        matchers == RegistryMatchers(registries)
        hits     == {i \in 1..Len(matchers) :
                        PrefixMatches(matchers[i].normalizedPrefix, dep)}
    IN  matchers[CHOOSE i \in hits : \A j \in hits : i <= j]

CurrentHasAliasMatch ==
    /\ CurrentReachesAlias
    /\ \E i \in 1..Len(registries) :
        PrefixMatches(NormalizeNFKC(registries[i][1]), NormalizeNFKC(CurrentImport))
    /\ Slice(NormalizeNFKC(CurrentImport), CurrentAliasItem.prefixLength + 1) # <<>>

\* C10: the string stored for an alias match is the template with {name}
\* replaced by the remainder, followed by '?' and the URL-encoded
\* parameters exactly when the entry has at least one parameter.
C10_StoredUrl ==
    [][CurrentHasAliasMatch
        => LET item == CurrentAliasItem
               name == Slice(NormalizeNFKC(CurrentImport), item.prefixLength + 1)
               url  == PlainReplace(item.urlTemplate, name)
                       \o (IF item.params = <<>> THEN <<>>
                           ELSE <<"?">> \o SearchParamsToString(ObjectEntries(item.params)))
           IN  /\ url \in Range(registryDependencies')
               /\ registryDependencies' = SetAdd(registryDependencies, url)]_vars

\* ------------------------------------------------------------------------
\* The components/ui rule and the default case (specification SpecCatchAll)
\* ------------------------------------------------------------------------

\* import literals of the default case and of the components/ui rule
S_at_reg_card ==
    <<"@", "/", "r", "e", "g", "i", "s", "t", "r", "y", "/", "c", "o", "m", "p", "o", "n", "e", "n", "t", "s", "/", "c", "a", "r", "d">>
S_at_ui_button ==
    <<"@", "/", "c", "o", "m", "p", "o", "n", "e", "n", "t", "s", "/", "u", "i", "/", "b", "u", "t", "t", "o", "n">>
S_ui_card_index ==
    <<"c", "o", "m", "p", "o", "n", "e", "n", "t", "s", "/", "u", "i", "/", "c", "a", "r", "d", "/", "i", "n", "d", "e", "x">>
S_reg_cui_x ==
    <<"~", "/", "r", "e", "g", "i", "s", "t", "r", "y", "/", "c", "o", "m", "p", "o", "n", "e", "n", "t", "s", "/", "u", "i", "/", "x">>
S_rel_ui_button ==
    <<".", "/", "c", "o", "m", "p", "o", "n", "e", "n", "t", "s", "/", "u", "i", "/", "b", "u", "t", "t", "o", "n">>
S_at_registry_prefix ==
    <<"@", "/", "r", "e", "g", "i", "s", "t", "r", "y">>
S_card ==
    <<"c", "a", "r", "d">>
S_button ==
    <<"b", "u", "t", "t", "o", "n">>
S_x ==
    <<"x">>
S_components ==
    <<"c", "o", "m", "p", "o", "n", "e", "n", "t", "s">>
S_ui ==
    <<"u", "i">>

\* No table; a declared package and the alias '~/registry'; the alias
\* '@/registry'.
CatchAllConfigs ==
    {Config(<<>>, <<>>, <<>>),
     Config(<<S_a>>, <<>>, <<<<S_reg, StringEntry(S_url_r)>>>>),
     Config(<<>>, <<>>, <<<<S_at_registry_prefix, StringEntry(S_url_r)>>>>)}

CatchAllLiterals ==
    {S_vue, S_a_x, S_at_reg_card, S_at_registry, S_at_ui_button,
     S_ui_card_index, S_reg_cui_x, S_rel_ui_button}

InitCatchAll ==
    InitWith(CatchAllConfigs, CatchAllLiterals, {"vue"}, {FALSE},
             MaxFiles, MaxImportsPair)

SpecCatchAll ==
    InitCatchAll /\ [][Next]_vars

\* An alias entry produces a URL for dep: some prefix matches and the
\* first matching entry, in enumeration order, leaves a non-empty name.
AliasGivesUrl(entries, dep) ==
    LET matching == {i \in 1..Len(entries) :
                        PrefixMatches(NormalizeNFKC(entries[i][1]), dep)}
        first    == CHOOSE i \in matching : \A j \in matching : i <= j
    IN  /\ matching # {}
        /\ Len(dep) > Len(NormalizeNFKC(entries[first][1])) + 1

\* The segment after the left-most 'components', 'ui' pair of segments
\* that is followed by a non-empty segment; <<>> when there is none.
UiName(dep) ==
    LET segs == SplitSlash(dep)
        at   == {i \in 1..(Len(segs) - 2) :
                    /\ segs[i] = S_components
                    /\ segs[i + 1] = S_ui
                    /\ segs[i + 2] # <<>>}
    IN  IF at = {} THEN <<>>
        ELSE segs[(CHOOSE i \in at : \A j \in at : i <= j) + 2]

\* The text after the last '/' of dep.
LastSegment(dep) ==
    LET slashes == {i \in 1..Len(dep) : dep[i] = "/"}
    IN  IF slashes = {} THEN dep
        ELSE SubSeq(dep, (CHOOSE i \in slashes : \A j \in slashes : j <= i) + 1, Len(dep))

\* The conditions C11 lists: not relative, not ignored, package name in
\* neither dependency set, no components/ui match, no URL from the table.
CurrentIsLeftOver ==
    /\ CurrentIsTracked
    /\ CurrentPackage \notin Range(compiledDependencies)
    /\ CurrentPackage \notin Range(compiledDevDependencies)
    /\ UiName(NormalizeNFKC(CurrentImport)) = <<>>
    /\ ~AliasGivesUrl(ObjectEntries(registries), NormalizeNFKC(CurrentImport))

\* C11 as stated: a literal that is not relative, not ignored, whose
\* package name is in neither dependency set, that matches no
\* components/ui pattern and gets no URL from the alias table is stored
\* verbatim, as its whole normalized literal, in registryDependencies.
C11_StoredVerbatim ==
    [][CurrentIsLeftOver
        => /\ registryDependencies' =
                SetAdd(registryDependencies, NormalizeNFKC(CurrentImport))
           /\ NormalizeNFKC(CurrentImport) \in Range(registryDependencies')
           /\ UNCHANGED <<dependencies, devDependencies>>]_vars

\* C11 as amended: such a literal, when its package name is not one of the
\* known third-party libraries either, is stored in registryDependencies
\* as its last segment if it begins with '@/registry/' and that segment is
\* not empty, and verbatim otherwise.
C11_StoredVerbatimOrLastSegment ==
    [][(CurrentIsLeftOver /\ CurrentPackage \notin knownThirdPartyLibs)
        => LET dep    == NormalizeNFKC(CurrentImport)
               stored == IF StartsWith(dep, S_at_registry) /\ LastSegment(dep) # <<>>
                         THEN LastSegment(dep) ELSE dep
           IN  /\ registryDependencies' = SetAdd(registryDependencies, stored)
               /\ stored \in Range(registryDependencies')
               /\ UNCHANGED <<dependencies, devDependencies>>]_vars

\* Witness of C11: '@/registry/components/card' and then 'a/x' were
\* processed with no table and nothing declared; 'card' and 'a/x' are
\* stored.
C11_Witness ==
    /\ AfterImport
    /\ matchIdx = 3
    /\ files[fileIdx].imports = <<S_at_reg_card, S_a_x>>
    /\ registries = <<>>
    /\ compiledDependencies = <<>>
    /\ registryDependencies = <<S_card, S_a_x>>

\* C12 as stated: a literal whose package name is in neither dependency
\* set and that contains components/ui/<name> is stored in
\* registryDependencies as <name> only, also when an alias prefix matches
\* the literal.
C12_UiNameStored ==
    [][(/\ AtImport
        /\ CurrentPackage \notin Range(compiledDependencies)
        /\ CurrentPackage \notin Range(compiledDevDependencies)
        /\ UiName(NormalizeNFKC(CurrentImport)) # <<>>)
        => /\ registryDependencies' =
                SetAdd(registryDependencies, UiName(NormalizeNFKC(CurrentImport)))
           /\ UNCHANGED <<dependencies, devDependencies>>]_vars

\* C12 as amended: the same of a literal that is not relative, not a
\* lib/utils path and whose package name is not one of the known
\* third-party libraries.
C12_TrackedUiNameStored ==
    [][(/\ CurrentIsTracked
        /\ CurrentPackage \notin knownThirdPartyLibs
        /\ CurrentPackage \notin Range(compiledDependencies)
        /\ CurrentPackage \notin Range(compiledDevDependencies)
        /\ UiName(NormalizeNFKC(CurrentImport)) # <<>>)
        => /\ registryDependencies' =
                SetAdd(registryDependencies, UiName(NormalizeNFKC(CurrentImport)))
           /\ UiName(NormalizeNFKC(CurrentImport)) \in Range(registryDependencies')
           /\ UNCHANGED <<dependencies, devDependencies>>]_vars

\* Witness of C12: '~/registry/components/ui/x' was processed under the
\* alias '~/registry', whose prefix matches it; 'x' is stored, no URL.
C12_Witness ==
    /\ AfterImport
    /\ PreviousImport = S_reg_cui_x
    /\ registries = <<<<S_reg, StringEntry(S_url_r)>>>>
    /\ registryDependencies = <<S_x>>

\* ------------------------------------------------------------------------
\* getPackageName on its own (specification SpecPackageName)
\* ------------------------------------------------------------------------

\* segments of import literals
S_at_vue ==
    <<"@", "v", "u", "e">>
S_runtime_core ==
    <<"r", "u", "n", "t", "i", "m", "e", "-", "c", "o", "r", "e">>
S_lodash ==
    <<"l", "o", "d", "a", "s", "h">>
S_es ==
    <<"e", "s">>
S_react_version ==
    <<"r", "e", "a", "c", "t", "@", "1", "8", ".", "0", ".", "0">>
S_react ==
    <<"r", "e", "a", "c", "t">>

\* Array.prototype.join('/')
RECURSIVE JoinSlash(_)
JoinSlash(parts) ==
    IF parts = <<>> THEN <<>>
    ELSE IF Len(parts) = 1 THEN parts[1]
    ELSE parts[1] \o <<"/">> \o JoinSlash(Tail(parts))

\* At most this many '/'-separated segments in a literal.
MaxSegments ==
    2

PackageSegments ==
    {S_at_vue, S_runtime_core, S_lodash, S_es, S_react_version, S_a, S_b, <<>>}

\* The literals getPackageName is called with: the non-empty strings of at
\* most MaxSegments segments.
PackageLiterals ==
    {JoinSlash(segs) : segs \in BoundedSeq(PackageSegments, MaxSegments)} \ {<<>>}

\* A caller evaluates getPackageName(dep).
GetPackageNameCall ==
    /\ call = NoCall
    /\ \E dep \in PackageLiterals :
        call' = [fn |-> "getPackageName", dep |-> dep]
    /\ returned' = NotReturned
    /\ UNCHANGED <<scanVars, typeVars, buildVars>>

GetPackageNameReturn ==
    /\ call.fn = "getPackageName"
    /\ ~returned.done
    /\ returned' = Returned(getPackageName(call.dep))
    /\ UNCHANGED <<call, scanVars, typeVars, buildVars>>

\* No getDependencies call: no arguments, nothing scanned.
ScanIdle ==
    /\ compiledDependencies = <<>>
    /\ compiledDevDependencies = <<>>
    /\ registries = <<>>
    /\ listing = <<>>
    /\ explicit = FALSE
    /\ pc = "idle"
    /\ calls = 0
    /\ files = <<>>
    /\ fileIdx = 1
    /\ matchIdx = 1
    /\ dependencies = <<>>
    /\ devDependencies = <<>>
    /\ registryDependencies = <<>>
    /\ result = EmptyResult
    /\ prevResult = EmptyResult

InitPackageName ==
    /\ ScanIdle
    /\ CallIdle
    /\ TypeIdle
    /\ BuildIdle

NextPackageName ==
    \/ GetPackageNameCall
    \/ GetPackageNameReturn

SpecPackageName ==
    InitPackageName /\ [][NextPackageName]_vars

\* The first n '/'-delimited segments of dep joined by '/'.
FirstSegments(dep, n) ==
    LET segs == SplitSlash(dep)
    IN  JoinSlash(SubSeq(segs, 1, IF Len(segs) < n THEN Len(segs) ELSE n))

\* name carries a version specifier: one of its segments has an '@' after
\* its first character.
HasVersionSpecifier(name) ==
    \E i \in 2..Len(name) : name[i] = "@" /\ name[i - 1] # "/"

\* C13: getPackageName returns the first two segments of a literal that
\* begins with '@' and the first segment of any other literal, and what it
\* returns carries no version specifier ('react@18.0.0' gives 'react').
C13_PackageName ==
    (call.fn = "getPackageName" /\ returned.done)
    => /\ returned.value = FirstSegments(call.dep, IF call.dep[1] = "@" THEN 2 ELSE 1)
       /\ ~HasVersionSpecifier(returned.value)
       /\ (call.dep = S_react_version => returned.value = S_react)

\* ------------------------------------------------------------------------
\* Registry types (specification SpecTypes)
\* ------------------------------------------------------------------------

\* REGISTRY_TYPES (generate.ts:151-163)
T_LIB ==
    <<"r", "e", "g", "i", "s", "t", "r", "y", ":", "l", "i", "b">>
T_BLOCK ==
    <<"r", "e", "g", "i", "s", "t", "r", "y", ":", "b", "l", "o", "c", "k">>
T_COMPONENT ==
    <<"r", "e", "g", "i", "s", "t", "r", "y", ":", "c", "o", "m", "p", "o", "n", "e", "n", "t">>
T_UI ==
    <<"r", "e", "g", "i", "s", "t", "r", "y", ":", "u", "i">>
T_HOOK ==
    <<"r", "e", "g", "i", "s", "t", "r", "y", ":", "h", "o", "o", "k">>
T_COMPOSABLE ==
    <<"r", "e", "g", "i", "s", "t", "r", "y", ":", "c", "o", "m", "p", "o", "s", "a", "b", "l", "e">>
T_PAGE ==
    <<"r", "e", "g", "i", "s", "t", "r", "y", ":", "p", "a", "g", "e">>
T_FILE ==
    <<"r", "e", "g", "i", "s", "t", "r", "y", ":", "f", "i", "l", "e">>
T_THEME ==
    <<"r", "e", "g", "i", "s", "t", "r", "y", ":", "t", "h", "e", "m", "e">>
T_STYLE ==
    <<"r", "e", "g", "i", "s", "t", "r", "y", ":", "s", "t", "y", "l", "e">>
T_ITEM ==
    <<"r", "e", "g", "i", "s", "t", "r", "y", ":", "i", "t", "e", "m">>
\* the keys of typeMap (generate.ts:177-209)
K_lib ==
    <<"l", "i", "b">>
K_block ==
    <<"b", "l", "o", "c", "k">>
K_blocks ==
    <<"b", "l", "o", "c", "k", "s">>
K_component ==
    <<"c", "o", "m", "p", "o", "n", "e", "n", "t">>
K_components ==
    <<"c", "o", "m", "p", "o", "n", "e", "n", "t", "s">>
K_ui ==
    <<"u", "i">>
K_hook ==
    <<"h", "o", "o", "k">>
K_composable ==
    <<"c", "o", "m", "p", "o", "s", "a", "b", "l", "e">>
K_composables ==
    <<"c", "o", "m", "p", "o", "s", "a", "b", "l", "e", "s">>
K_page ==
    <<"p", "a", "g", "e">>
K_pages ==
    <<"p", "a", "g", "e", "s">>
K_file ==
    <<"f", "i", "l", "e">>
K_files ==
    <<"f", "i", "l", "e", "s">>
K_theme ==
    <<"t", "h", "e", "m", "e">>
K_style ==
    <<"s", "t", "y", "l", "e">>
K_item ==
    <<"i", "t", "e", "m">>
\* properties every object inherits from Object.prototype
K_constructor ==
    <<"c", "o", "n", "s", "t", "r", "u", "c", "t", "o", "r">>
K_toString ==
    <<"t", "o", "S", "t", "r", "i", "n", "g">>
K_valueOf ==
    <<"v", "a", "l", "u", "e", "O", "f">>
K_hasOwnProperty ==
    <<"h", "a", "s", "O", "w", "n", "P", "r", "o", "p", "e", "r", "t", "y">>
\* the prefix of a synthesized tag
S_registry_colon ==
    <<"r", "e", "g", "i", "s", "t", "r", "y", ":">>
\* paths
P_ui_button ==
    <<"u", "i", "/", "b", "u", "t", "t", "o", "n">>
P_forms_input ==
    <<"f", "o", "r", "m", "s", "/", "i", "n", "p", "u", "t">>
P_blocks_hero ==
    <<"b", "l", "o", "c", "k", "s", "/", "h", "e", "r", "o">>
P_composables_useCounter ==
    <<"c", "o", "m", "p", "o", "s", "a", "b", "l", "e", "s", "/", "u", "s", "e", "C", "o", "u", "n", "t", "e", "r">>
P_hooks_useAuth ==
    <<"h", "o", "o", "k", "s", "/", "u", "s", "e", "A", "u", "t", "h">>
P_utils_format ==
    <<"u", "t", "i", "l", "s", "/", "f", "o", "r", "m", "a", "t", ".", "t", "s">>
P_ui_blocks_hero ==
    <<"u", "i", "/", "b", "l", "o", "c", "k", "s", "/", "h", "e", "r", "o">>
P_blocks_ui_hero ==
    <<"b", "l", "o", "c", "k", "s", "/", "u", "i", "/", "h", "e", "r", "o">>
P_theme_file_x ==
    <<"t", "h", "e", "m", "e", "/", "f", "i", "l", "e", "/", "x">>
P_unknown_custom ==
    <<"u", "n", "k", "n", "o", "w", "n", "/", "c", "u", "s", "t", "o", "m">>
P_constructor_x ==
    <<"c", "o", "n", "s", "t", "r", "u", "c", "t", "o", "r", "/", "x">>
P_slash ==
    <<"/">>
P_ui_button_index ==
    <<"u", "i", "/", "/", "b", "u", "t", "t", "o", "n", "/", "i", "n", "d", "e", "x", ".", "v", "u", "e">>

\* node:path sep
sep ==
    "/"

REGISTRY_TYPES ==
    [LIB |-> T_LIB, BLOCK |-> T_BLOCK, COMPONENT |-> T_COMPONENT, UI |-> T_UI,
     HOOK |-> T_HOOK, COMPOSABLE |-> T_COMPOSABLE, PAGE |-> T_PAGE,
     FILE |-> T_FILE, THEME |-> T_THEME, STYLE |-> T_STYLE, ITEM |-> T_ITEM]

\* The own properties of typeMap, in the order it defines them.
typeMap ==
    <<<<K_lib, REGISTRY_TYPES.LIB>>,
      <<K_block, REGISTRY_TYPES.BLOCK>>,
      <<K_blocks, REGISTRY_TYPES.BLOCK>>,
      <<K_component, REGISTRY_TYPES.COMPONENT>>,
      <<K_components, REGISTRY_TYPES.COMPONENT>>,
      <<K_ui, REGISTRY_TYPES.UI>>,
      <<K_hook, REGISTRY_TYPES.HOOK>>,
      <<K_composable, REGISTRY_TYPES.COMPOSABLE>>,
      <<K_composables, REGISTRY_TYPES.COMPOSABLE>>,
      <<K_page, REGISTRY_TYPES.PAGE>>,
      <<K_pages, REGISTRY_TYPES.PAGE>>,
      <<K_file, REGISTRY_TYPES.FILE>>,
      <<K_files, REGISTRY_TYPES.FILE>>,
      <<K_theme, REGISTRY_TYPES.THEME>>,
      <<K_style, REGISTRY_TYPES.STYLE>>,
      <<K_item, REGISTRY_TYPES.ITEM>>>>

\* Properties typeMap inherits from Object.prototype (typeMap is an object
\* literal); a selection of them.
InheritedProperties ==
    {K_constructor, K_toString, K_valueOf, K_hasOwnProperty}

\* The value of an inherited property: a function object, which is no
\* string.
InheritedValue(segment) ==
    <<"function">> \o segment

\* segment in typeMap
InTypeMap(segment) ==
    \/ \E i \in 1..Len(typeMap) : typeMap[i][1] = segment
    \/ segment \in InheritedProperties

\* typeMap[segment], for a segment in typeMap
TypeMapGet(segment) ==
    IF \E i \in 1..Len(typeMap) : typeMap[i][1] = segment
    THEN typeMap[CHOOSE i \in 1..Len(typeMap) : typeMap[i][1] = segment][2]
    ELSE InheritedValue(segment)

COMMON_PREFIXES ==
    <<K_ui, K_lib, K_component, K_components, K_page, K_pages, K_hook, K_composable>>

\* path.split(sep).filter(Boolean)
PathSegments(path) ==
    SelectSeq(SplitSlash(path), LAMBDA s : s # <<>>)

\* The greatest index in indices; 0 when there is none.
LastOf(indices) ==
    IF indices = {} THEN 0 ELSE CHOOSE i \in indices : \A j \in indices : j <= i

\* searchTypeInSegments: a right-to-left loop over the common prefixes, a
\* right-to-left loop over all keys, then the first segment.
searchTypeInSegments(segments) ==
    LET common == LastOf({i \in 1..Len(segments) :
                            /\ segments[i] \in Range(COMMON_PREFIXES)
                            /\ InTypeMap(segments[i])})
        any    == LastOf({i \in 1..Len(segments) : InTypeMap(segments[i])})
    IN  IF common # 0 THEN TypeMapGet(segments[common])
        ELSE IF any # 0 THEN TypeMapGet(segments[any])
        ELSE IF InTypeMap(segments[1]) THEN TypeMapGet(segments[1])
        ELSE S_registry_colon \o segments[1]

\* typeCache.has(path)
TypeCacheHas(path) ==
    \E e \in typeCache : e[1] = path

\* typeCache.get(path)
TypeCacheGet(path) ==
    (CHOOSE e \in typeCache : e[1] = path)[2]

\* The value getRegistryType(path) returns in the current state.
RegistryTypeOf(path) ==
    IF path = <<>> THEN REGISTRY_TYPES.ITEM
    ELSE IF TypeCacheHas(path) THEN TypeCacheGet(path)
    ELSE IF PathSegments(path) = <<>> THEN REGISTRY_TYPES.ITEM
    ELSE searchTypeInSegments(PathSegments(path))

\* TypeCacheAfter storing the type of the first segment under the path.
TypeCacheAfter_FirstSegmentOnly(path) ==
    IF path = <<>> \/ TypeCacheHas(path) \/ PathSegments(path) = <<>>
    THEN typeCache
    ELSE typeCache \cup {<<path, searchTypeInSegments(<<PathSegments(path)[1]>>)>>}

\* The cache after getRegistryType(path): typeCache.set(path, result) when
\* the search ran.
TypeCacheAfter(path) ==
    IF path = <<>> \/ TypeCacheHas(path) \/ PathSegments(path) = <<>>
    THEN typeCache
    ELSE typeCache \cup {<<path, searchTypeInSegments(PathSegments(path))>>}

\* At most this many calls on the type module.
MaxTypeCalls ==
    3

TypePaths ==
    {<<>>, P_slash, P_ui_button, P_forms_input, P_blocks_hero,
     P_composables_useCounter, P_hooks_useAuth, P_utils_format,
     P_ui_blocks_hero, P_blocks_ui_hero, P_theme_file_x, P_unknown_custom,
     P_constructor_x, P_ui_button_index}

\* One call of getRegistryType.
GetRegistryType ==
    /\ typeCalls < MaxTypeCalls
    /\ \E path \in TypePaths :
        /\ call' = [fn |-> "getRegistryType", path |-> path]
        /\ returned' = Returned(RegistryTypeOf(path))
        /\ typeCache' = TypeCacheAfter(path)
    /\ typeCalls' = typeCalls + 1
    /\ UNCHANGED <<scanVars, buildVars>>

\* One call of clearTypeCache.
ClearTypeCache ==
    /\ typeCalls < MaxTypeCalls
    /\ call' = [fn |-> "clearTypeCache"]
    /\ returned' = NotReturned
    /\ typeCache' = {}
    /\ typeCalls' = typeCalls + 1
    /\ UNCHANGED <<scanVars, buildVars>>

InitTypes ==
    /\ ScanIdle
    /\ CallIdle
    /\ TypeIdle
    /\ BuildIdle

NextTypes ==
    \/ GetRegistryType
    \/ ClearTypeCache

SpecTypes ==
    InitTypes /\ [][NextTypes]_vars

\* tags the README table promises
T_FORM ==
    <<"r", "e", "g", "i", "s", "t", "r", "y", ":", "f", "o", "r", "m">>
T_UTIL ==
    <<"r", "e", "g", "i", "s", "t", "r", "y", ":", "u", "t", "i", "l">>
\* first segments of the README table
K_forms ==
    <<"f", "o", "r", "m", "s">>
K_hooks ==
    <<"h", "o", "o", "k", "s">>
K_utils ==
    <<"u", "t", "i", "l", "s">>

\* The keys the type table defines.
TableKeys ==
    {typeMap[i][1] : i \in 1..Len(typeMap)}

\* The tag the table maps key to.
TableTag(key) ==
    typeMap[CHOOSE i \in 1..Len(typeMap) : typeMap[i][1] = key][2]

\* getRegistryType has just returned for a path with at least one segment.
TypeReturned ==
    /\ call.fn = "getRegistryType"
    /\ returned.done
    /\ PathSegments(call.path) # <<>>

\* C14: for a path with at least one segment getRegistryType returns the
\* tag of the right-most segment that is a key of the type table, and
\* 'registry:' followed by the first segment when no segment is a key.
C14_RightMostKeyDecides ==
    TypeReturned
    => LET segs == PathSegments(call.path)
           keys == {i \in 1..Len(segs) : segs[i] \in TableKeys}
       IN  returned.value =
               IF keys = {} THEN S_registry_colon \o segs[1]
               ELSE TableTag(segs[CHOOSE i \in keys : \A j \in keys : j <= i])

\* The table of the README: directory and type.
ReadmeTable ==
    {<<K_ui, T_UI>>, <<K_forms, T_FORM>>, <<K_blocks, T_BLOCK>>,
     <<K_composables, T_COMPOSABLE>>, <<K_hooks, T_HOOK>>, <<K_utils, T_UTIL>>}

\* C15: a path under one of the directories of the README table (its
\* first segment is the directory, no later segment is a key of the type
\* table) gets the type the README table gives for that directory.
C15_ReadmeCategories ==
    TypeReturned
    => LET segs == PathSegments(call.path)
       IN  \A row \in ReadmeTable :
               (/\ segs[1] = row[1]
                /\ \A i \in 2..Len(segs) : segs[i] \notin TableKeys)
               => returned.value = row[2]

\* ------------------------------------------------------------------------
\* Component names (specification SpecNames)
\* ------------------------------------------------------------------------

\* component directories
D_composable ==
    <<"/", "p", "r", "o", "j", "/", "c", "o", "m", "p", "o", "s", "a", "b", "l", "e">>
D_ui_button ==
    <<"/", "p", "r", "o", "j", "/", "u", "i", "/", "b", "u", "t", "t", "o", "n">>
D_modal ==
    <<"/", "p", "/", "m", "o", "d", "a", "l">>
D_ab ==
    <<"/", "p", "/", "a", "b">>
\* file names
F_createContext_ts ==
    <<"c", "r", "e", "a", "t", "e", "C", "o", "n", "t", "e", "x", "t", ".", "t", "s">>
F_index_vue ==
    <<"i", "n", "d", "e", "x", ".", "v", "u", "e">>
F_Modal_vue ==
    <<"M", "o", "d", "a", "l", ".", "v", "u", "e">>
F_modal_ts ==
    <<"m", "o", "d", "a", "l", ".", "t", "s">>
F_ab_ts ==
    <<"a", "b", ".", "t", "s">>
F_Button_vue ==
    <<"B", "u", "t", "t", "o", "n", ".", "v", "u", "e">>
F_index ==
    <<"i", "n", "d", "e", "x">>
F_a_b_ts ==
    <<"a", ".", "b", ".", "t", "s">>
\* names
N_createContext ==
    <<"c", "r", "e", "a", "t", "e", "C", "o", "n", "t", "e", "x", "t">>
N_Modal ==
    <<"M", "o", "d", "a", "l">>

UpperCaseLetters ==
    <<"A", "B", "C", "D", "E", "F", "G", "H", "I", "J", "K", "L", "M", "N", "O", "P", "Q", "R", "S", "T", "U", "V", "W", "X", "Y", "Z">>

LowerCaseLetters ==
    <<"a", "b", "c", "d", "e", "f", "g", "h", "i", "j", "k", "l", "m", "n", "o", "p", "q", "r", "s", "t", "u", "v", "w", "x", "y", "z">>

\* String.prototype.toLowerCase on one code unit
LowerChar(c) ==
    IF \E i \in 1..Len(UpperCaseLetters) : UpperCaseLetters[i] = c
    THEN LowerCaseLetters[CHOOSE i \in 1..Len(UpperCaseLetters) : UpperCaseLetters[i] = c]
    ELSE c

\* String.prototype.toLowerCase
ToLowerCase(s) ==
    [i \in 1..Len(s) |-> LowerChar(s[i])]

\* String.prototype.lastIndexOf(c), as a 1-based position; 0 when absent.
LastIndexOf(s, c) ==
    LET hits == {i \in 1..Len(s) : s[i] = c}
    IN  IF hits = {} THEN 0 ELSE CHOOSE i \in hits : \A j \in hits : j <= i

\* p without its trailing '/' characters.
RECURSIVE StripTrailingSlashes(_)
StripTrailingSlashes(p) ==
    IF p # <<>> /\ p[Len(p)] = "/"
    THEN StripTrailingSlashes(SubSeq(p, 1, Len(p) - 1))
    ELSE p

\* node:path basename: the last portion of a path, trailing separators
\* ignored.
basename(p) ==
    LET q == StripTrailingSlashes(p)
    IN  SubSeq(q, LastIndexOf(q, "/") + 1, Len(q))

\* node:path dirname of an absolute path of a file.
dirname(p) ==
    LET q == StripTrailingSlashes(p)
        i == LastIndexOf(q, "/")
    IN  IF i = 0 THEN <<".">>
        ELSE IF i = 1 THEN <<"/">>
        ELSE SubSeq(q, 1, i - 1)

\* fileName.includes('.') ? fileName.slice(0, fileName.lastIndexOf('.')) : fileName
NameWithoutExt(fileName) ==
    IF LastIndexOf(fileName, ".") # 0
    THEN SubSeq(fileName, 1, LastIndexOf(fileName, ".") - 1)
    ELSE fileName

\* basename(file).startsWith('index.')
IsIndexFile(file) ==
    StartsWith(basename(file), <<"i", "n", "d", "e", "x", ".">>)

\* getComponentName comparing the names as they are written: modal/Modal.vue
\* is named 'Modal'.
getComponentName_CaseSensitive(dir, filesInDir) ==
    IF Len(filesInDir) = 0 THEN basename(dir)
    ELSE IF \E i \in 1..Len(filesInDir) : IsIndexFile(filesInDir[i]) THEN basename(dir)
    ELSE IF Len(filesInDir) = 1
    THEN LET nameWithoutExt == NameWithoutExt(basename(filesInDir[1]))
             dirName        == basename(dir)
         IN  IF nameWithoutExt # dirName /\ Len(nameWithoutExt) > 2
             THEN nameWithoutExt
             ELSE dirName
    ELSE basename(dir)

getComponentName(dir, filesInDir) ==
    IF Len(filesInDir) = 0 THEN basename(dir)
    ELSE IF \E i \in 1..Len(filesInDir) : IsIndexFile(filesInDir[i]) THEN basename(dir)
    ELSE IF Len(filesInDir) = 1
    THEN IF filesInDir[1] = <<>> THEN basename(dir)
         ELSE LET nameWithoutExt == NameWithoutExt(basename(filesInDir[1]))
                  dirName        == basename(dir)
              IN  IF nameWithoutExt # dirName /\ Len(nameWithoutExt) > 2
                  THEN IF ToLowerCase(nameWithoutExt) = ToLowerCase(dirName)
                       THEN dirName
                       ELSE nameWithoutExt
                  ELSE dirName
    ELSE basename(dir)

\* At most this many files in the list given to getComponentName.
MaxDirFiles ==
    2

ComponentDirs ==
    {D_composable, D_ui_button, D_modal, D_ab}

FileNames ==
    {F_createContext_ts, F_index_vue, F_Modal_vue, F_modal_ts, F_ab_ts,
     F_Button_vue, F_index, F_a_b_ts}

\* A caller evaluates getComponentName(dir, filesInDir) for files of dir.
GetComponentNameCall ==
    /\ call = NoCall
    /\ \E dir \in ComponentDirs, names \in BoundedSeq(FileNames, MaxDirFiles) :
        call' = [fn         |-> "getComponentName",
                 dir        |-> dir,
                 filesInDir |-> [i \in 1..Len(names) |-> dir \o <<"/">> \o names[i]]]
    /\ returned' = NotReturned
    /\ UNCHANGED <<scanVars, typeVars, buildVars>>

GetComponentNameReturn ==
    /\ call.fn = "getComponentName"
    /\ ~returned.done
    /\ returned' = Returned(getComponentName(call.dir, call.filesInDir))
    /\ UNCHANGED <<call, scanVars, typeVars, buildVars>>

InitNames ==
    /\ ScanIdle
    /\ CallIdle
    /\ TypeIdle
    /\ BuildIdle

NextNames ==
    \/ GetComponentNameCall
    \/ GetComponentNameReturn

SpecNames ==
    InitNames /\ [][NextNames]_vars

\* The file name of a path without its extension: the text after the last
\* '/', up to its last '.' when it has one.
Stem(file) ==
    LET name == LastSegment(file)
        dots == {i \in 1..Len(name) : name[i] = "."}
    IN  IF dots = {} THEN name
        ELSE SubSeq(name, 1, (CHOOSE i \in dots : \A j \in dots : j <= i) - 1)

\* C16: getComponentName returns the basename of dir when the list is
\* empty, when a file name begins with 'index.' or when there are several
\* files; for one file that is no index file it returns the directory
\* basename if the extension-stripped file name equals it but for case,
\* else the stripped name if it is longer than 2 characters, else the
\* directory basename.
C16_ComponentName ==
    (call.fn = "getComponentName" /\ returned.done)
    => LET dirName  == LastSegment(call.dir)
           list     == call.filesInDir
           hasIndex == \E i \in 1..Len(list) :
                           StartsWith(LastSegment(list[i]), <<"i", "n", "d", "e", "x", ".">>)
       IN  returned.value =
               IF Len(list) = 0 \/ hasIndex \/ Len(list) > 1 THEN dirName
               ELSE IF ToLowerCase(Stem(list[1])) = ToLowerCase(dirName) THEN dirName
               ELSE IF Len(Stem(list[1])) > 2 THEN Stem(list[1])
               ELSE dirName

\* Witness of C16: ('/proj/composable', ['/proj/composable/createContext.ts'])
\* has returned 'createContext'.
C16_Witness ==
    /\ call.fn = "getComponentName"
    /\ call.dir = D_composable
    /\ call.filesInDir = <<D_composable \o <<"/">> \o F_createContext_ts>>
    /\ returned.done
    /\ returned.value = N_createContext

\* ------------------------------------------------------------------------
\* Component discovery (specification SpecDiscover)
\* ------------------------------------------------------------------------

\* A Map is the sequence of its <<key, value>> entries in insertion order.
MapHas(map, key) ==
    \E i \in 1..Len(map) : map[i][1] = key

MapGet(map, key) ==
    map[CHOOSE i \in 1..Len(map) : map[i][1] = key][2]

\* Map.prototype.set: a present key keeps its place.
MapSet(map, key, value) ==
    IF MapHas(map, key)
    THEN [i \in 1..Len(map) |-> IF map[i][1] = key THEN <<key, value>> ELSE map[i]]
    ELSE Append(map, <<key, value>>)

\* A directory of files is never split.
shouldSplitIntoSeparateComponents_Never(dirFiles) ==
    FALSE

shouldSplitIntoSeparateComponents(dirFiles) ==
    ~(\E i \in 1..Len(dirFiles) : IsIndexFile(dirFiles[i]))

\* The first loop of discoverComponents: files grouped by their directory.
RECURSIVE GroupByDirectory(_, _)
GroupByDirectory(componentFiles, dirToFilesMap) ==
    IF componentFiles = <<>> THEN dirToFilesMap
    ELSE LET file  == Head(componentFiles)
             dir   == dirname(file)
             dirFiles == IF MapHas(dirToFilesMap, dir) THEN MapGet(dirToFilesMap, dir) ELSE <<>>
         IN  GroupByDirectory(Tail(componentFiles),
                              MapSet(dirToFilesMap, dir, Append(dirFiles, file)))

\* The entries pushed for one directory.
EntriesOfDirectory(dir, dirFiles) ==
    IF shouldSplitIntoSeparateComponents(dirFiles)
    THEN [i \in 1..Len(dirFiles) |-> [dir |-> dir, files |-> <<dirFiles[i]>>, isFileBased |-> TRUE]]
    ELSE <<[dir |-> dir, files |-> dirFiles, isFileBased |-> FALSE]>>

\* ComponentEntriesOf visiting the directories last to first.
RECURSIVE ComponentEntriesOf_Reversed(_)
ComponentEntriesOf_Reversed(dirToFilesMap) ==
    IF dirToFilesMap = <<>> THEN <<>>
    ELSE ComponentEntriesOf_Reversed(Tail(dirToFilesMap))
             \o EntriesOfDirectory(Head(dirToFilesMap)[1], Head(dirToFilesMap)[2])

\* The second loop of discoverComponents.
RECURSIVE ComponentEntriesOf(_)
ComponentEntriesOf(dirToFilesMap) ==
    IF dirToFilesMap = <<>> THEN <<>>
    ELSE EntriesOfDirectory(Head(dirToFilesMap)[1], Head(dirToFilesMap)[2])
             \o ComponentEntriesOf(Tail(dirToFilesMap))

\* The key of an entry in finalDirToFilesMap and uniqueDirs.
EntryKey(entry) ==
    IF entry.isFileBased THEN entry.files[1] ELSE entry.dir

\* The third loop of discoverComponents.
RECURSIVE FinalDirToFilesMap(_, _)
FinalDirToFilesMap(entries, map) ==
    IF entries = <<>> THEN map
    ELSE FinalDirToFilesMap(Tail(entries),
                            MapSet(map, EntryKey(Head(entries)), Head(entries).files))

\* discoverComponents, given the files globSync returned.
discoverComponents(componentFiles) ==
    LET entries == ComponentEntriesOf(GroupByDirectory(componentFiles, <<>>))
    IN  [componentFiles   |-> componentFiles,
         dirToFilesMap    |-> FinalDirToFilesMap(entries, <<>>),
         uniqueDirs       |-> [i \in 1..Len(entries) |-> EntryKey(entries[i])],
         componentEntries |-> entries]

\* At most this many files are matched by the glob pattern.
MaxListed ==
    3

P_button_index == D_ui_button \o <<"/">> \o F_index_vue
P_button_Button == D_ui_button \o <<"/">> \o F_Button_vue
P_composable_createContext == D_composable \o <<"/">> \o F_createContext_ts
P_composable_ab == D_composable \o <<"/">> \o F_ab_ts
P_modal_Modal == D_modal \o <<"/">> \o F_Modal_vue

ListedFiles ==
    {P_button_index, P_button_Button, P_composable_createContext,
     P_composable_ab, P_modal_Modal}

\* globSync returns distinct absolute paths.
GlobListings ==
    {l \in BoundedSeq(ListedFiles, MaxListed) :
        \A i, j \in 1..Len(l) : i # j => l[i] # l[j]}

DiscoverComponentsCall ==
    /\ call = NoCall
    /\ \E matched \in GlobListings :
        call' = [fn |-> "discoverComponents", componentFiles |-> matched]
    /\ returned' = NotReturned
    /\ UNCHANGED <<scanVars, typeVars, buildVars>>

DiscoverComponentsReturn ==
    /\ call.fn = "discoverComponents"
    /\ ~returned.done
    /\ returned' = Returned(discoverComponents(call.componentFiles))
    /\ UNCHANGED <<call, scanVars, typeVars, buildVars>>

InitDiscover ==
    /\ ScanIdle
    /\ CallIdle
    /\ TypeIdle
    /\ BuildIdle

NextDiscover ==
    \/ DiscoverComponentsCall
    \/ DiscoverComponentsReturn

SpecDiscover ==
    InitDiscover /\ [][NextDiscover]_vars

\* The parent directory of a file: the text before its last '/'.
ParentOf(file) ==
    SubSeq(file, 1, Len(file) - Len(LastSegment(file)) - 1)

\* The matched files that lie in a directory, in the order they were matched.
FilesIn(matched, dir) ==
    SelectSeq(matched, LAMBDA f : ParentOf(f) = dir)

BeginsWithIndex(file) ==
    StartsWith(LastSegment(file), <<"i", "n", "d", "e", "x", ".">>)

\* How many units hold a file.
UnitsHolding(entries, file) ==
    Cardinality({<<i, j>> \in (1..Len(entries)) \X (1..MaxListed + 1) :
                    j <= Len(entries[i].files) /\ entries[i].files[j] = file})

D_cwd ==
    <<"/", "p", "r", "o", "j">>
D_hook_useX ==
    <<"/", "p", "r", "o", "j", "/", "h", "o", "o", "k", "/", "u", "s", "e", "X">>
F_useX_ts ==
    <<"u", "s", "e", "X", ".", "t", "s">>

\* node:path relative(from, to) for a path to at or below from.
relative(from, to) ==
    IF to = from THEN <<>> ELSE Slice(to, Len(from) + 1)

\* node:path join of two normalized relative paths.
join(a, b) ==
    IF a = <<>> THEN b
    ELSE IF b = <<>> THEN a
    ELSE a \o <<"/">> \o b

\* The extension of a file of the tree, as globSync matches it.
Extension(path) ==
    IF EndsWith(path, <<".", "v", "u", "e">>) THEN "vue"
    ELSE IF EndsWith(path, <<".", "t", "s", "x">>) THEN "tsx"
    ELSE IF EndsWith(path, <<".", "j", "s", "x">>) THEN "jsx"
    ELSE IF EndsWith(path, <<".", "t", "s">>) THEN "ts"
    ELSE IF EndsWith(path, <<".", "j", "s">>) THEN "js"
    ELSE "other"

\* globSync('*/*/*.{...}', {cwd}): the component files of the project, none
\* when the directory does not exist.
GlobComponentFiles(p) ==
    IF p.cwdExists
    THEN [i \in 1..Len(p.tree) |-> p.tree[i].path]
    ELSE <<>>

\* globSync('**/*.{...}', {cwd: dir}): the files of the tree below dir.
GlobDirectory(p, dir) ==
    SelectSeq(p.tree, LAMBDA f : StartsWith(f.path, dir \o <<"/">>))

\* The import literals of a list of files, in match order.
RECURSIVE AllImports(_)
AllImports(fileList) ==
    IF fileList = <<>> THEN <<>>
    ELSE Head(fileList).imports \o AllImports(Tail(fileList))

\* The loops of getDependencies over the matches: the three Sets after
\* the literals of imports.
RECURSIVE ScanImports(_, _, _, _, _)
ScanImports(imports, sets, depSet, devDepSet, matchers) ==
    IF imports = <<>> THEN sets
    ELSE LET c == ClassifyImport(Head(imports), depSet, devDepSet, matchers)
         IN  ScanImports(Tail(imports),
                 IF c.bucket = "none" THEN sets
                 ELSE [sets EXCEPT ![c.bucket] = SetAdd(@, c.value)],
                 depSet, devDepSet, matchers)

\* getDependencies(dir, compiledDependencies, compiledDevDependencies,
\* {registries}) from entry to return, for the files globbed below dir.
getDependencies(dirFiles, compiledDeps, compiledDevDeps, registryConfig) ==
    LET sets == ScanImports(AllImports(FilesToScan(FALSE, dirFiles)),
                            EmptyResult,
                            NewSet(compiledDeps), NewSet(compiledDevDeps),
                            RegistryMatchers(registryConfig))
    IN  [dependencies         |-> ArraySort(sets.dependencies),
         devDependencies      |-> ArraySort(sets.devDependencies),
         registryDependencies |-> ArraySort(sets.registryDependencies)]

\* TypeCacheAfterAll storing the default type instead of the result.
TypeCacheAfterAll_StoresDefault(paths) ==
    typeCache \cup
        {<<path, REGISTRY_TYPES.ITEM>> :
            path \in {q \in paths : /\ q # <<>>
                                    /\ ~TypeCacheHas(q)
                                    /\ PathSegments(q) # <<>>}}

\* The cache after getRegistryType was called on each path of paths.
TypeCacheAfterAll(paths) ==
    typeCache \cup
        {<<path, searchTypeInSegments(PathSegments(path))>> :
            path \in {q \in paths : /\ q # <<>>
                                    /\ ~TypeCacheHas(q)
                                    /\ PathSegments(q) # <<>>}}

\* The early exit of generateRegistry: the error thrown for a project, if
\* any.
DirectoryCheck_Absent(p) ==
    NoValue

DirectoryCheck(p) ==
    IF ~p.cwdExists THEN "Directory not found" ELSE NoValue

\* Lines 22-36: the names declared in package.json, none when the file is
\* missing or JSON.parse throws.
ReadPackageJson(packageJson) ==
    IF packageJson.state = "ok"
    THEN [dependencies    |-> packageJson.dependencies,
          devDependencies |-> packageJson.devDependencies]
    ELSE [dependencies |-> <<>>, devDependencies |-> <<>>]

\* Lines 81-92: the item of a directory before the lists are attached. An
\* object is the Map of its properties in insertion order.
ItemOfDirectory(p, dir) ==
    LET relativeDir == relative(D_cwd, dir)
        segments    == SplitSlash(relativeDir)
        dirFiles    == GlobDirectory(p, dir)
    IN  <<<<"name", segments[Len(segments)]>>,
          <<"type", RegistryTypeOf(relativeDir)>>,
          <<"items", [i \in 1..Len(dirFiles) |->
                        LET relativeFilePath ==
                                join(relativeDir, relative(dir, dirFiles[i].path))
                        IN  [path |-> relativeFilePath,
                             type |-> RegistryTypeOf(relativeFilePath)]]>>>>

\* Lines 102-116: the three Object.assign calls.
AttachDependencies(item, pkg) ==
    LET withDeps == IF Len(pkg.dependencies) # 0
                    THEN MapSet(item, "dependencies", pkg.dependencies)
                    ELSE item
        withDev  == IF Len(pkg.devDependencies) # 0
                    THEN MapSet(withDeps, "dependencies", pkg.devDependencies)
                    ELSE withDeps
    IN  IF Len(pkg.registryDependencies) # 0
        THEN MapSet(withDev, "dependencies", pkg.registryDependencies)
        ELSE withDev

\* Lines 12-19: the existence check of config.cwd.
CheckDirectory ==
    /\ bpc = "start"
    /\ thrown' = DirectoryCheck(project)
    /\ bpc' = IF DirectoryCheck(project) # NoValue THEN "failed" ELSE "package"
    /\ UNCHANGED <<project, configDisk, loaded, componentEntries, registryItems,
                   pkgDependencies, registryJson, listed, scanned>>
    /\ UNCHANGED <<scanVars, callVars, typeVars>>

\* Lines 22-36: package.json is read.
ReadDependencies ==
    /\ bpc = "package"
    /\ loaded' = [done            |-> TRUE,
                  dependencies    |-> ReadPackageJson(project.packageJson).dependencies,
                  devDependencies |-> ReadPackageJson(project.packageJson).devDependencies]
    /\ bpc' = "list"
    /\ UNCHANGED <<project, configDisk, componentEntries, registryItems, pkgDependencies,
                   registryJson, thrown, listed, scanned>>
    /\ UNCHANGED <<scanVars, callVars, typeVars>>

\* Lines 40-47: the component directories, without duplicates.
ListDirectories ==
    /\ bpc = "list"
    /\ LET componentFiles == GlobComponentFiles(project)
       IN  componentEntries' = NewSet([i \in 1..Len(componentFiles) |-> dirname(componentFiles[i])])
    /\ listed' = listed + 1
    /\ bpc' = "process"
    /\ UNCHANGED <<project, configDisk, loaded, registryItems, pkgDependencies,
                   registryJson, thrown, scanned>>
    /\ UNCHANGED <<scanVars, callVars, typeVars>>

\* Lines 55-120: one iteration of the loop over uniqueDirs.
ProcessDirectory ==
    /\ bpc = "process"
    /\ Len(registryItems) < Len(componentEntries)
    /\ LET dir         == componentEntries[Len(registryItems) + 1]
           relativeDir == relative(D_cwd, dir)
           dirFiles    == GlobDirectory(project, dir)
           pkg         == getDependencies(dirFiles, loaded.dependencies,
                                          loaded.devDependencies, <<>>)
       IN  /\ registryItems' =
                Append(registryItems, AttachDependencies(ItemOfDirectory(project, dir), pkg))
           /\ pkgDependencies' = Append(pkgDependencies, pkg)
           /\ typeCache' =
                TypeCacheAfterAll({relativeDir} \cup
                    {join(relativeDir, relative(dir, dirFiles[i].path)) :
                        i \in 1..Len(dirFiles)})
           /\ typeCalls' = typeCalls + 1 + Len(dirFiles)
    /\ listed' = listed + 2
    /\ scanned' = scanned + 1
    /\ UNCHANGED <<project, configDisk, bpc, loaded, componentEntries, registryJson, thrown>>
    /\ UNCHANGED <<scanVars, callVars>>

\* Lines 122-138: registry.json is written.
WriteRegistry ==
    /\ bpc = "process"
    /\ Len(registryItems) = Len(componentEntries)
    /\ registryJson' = [writes |-> registryJson.writes + 1, items |-> registryItems]
    /\ bpc' = "done"
    /\ UNCHANGED <<project, configDisk, loaded, componentEntries, registryItems,
                   pkgDependencies, thrown, listed, scanned>>
    /\ UNCHANGED <<scanVars, callVars, typeVars>>

\* At most this many component files in a project.
MaxTreeFiles ==
    2

P_hook_useX == D_hook_useX \o <<"/">> \o F_useX_ts

TreePaths ==
    {P_button_index, P_button_Button, P_hook_useX}

ImportLists ==
    {<<>>, <<S_a, S_b, S_reg_ui_foo>>, <<S_b>>, <<S_a_x>>, <<S_vue, S_local>>}

Trees ==
    {[i \in 1..Len(t[1]) |->
        [path |-> t[1][i], ext |-> Extension(t[1][i]), imports |-> t[2][i]]] :
        t \in {u \in BoundedSeq(TreePaths, MaxTreeFiles)
                     \X BoundedSeq(ImportLists, MaxTreeFiles) :
                  /\ Len(u[1]) = Len(u[2])
                  /\ \A i, j \in 1..Len(u[1]) : i # j => u[1][i] # u[1][j]}}

PackageJsons ==
    {[state |-> "missing", dependencies |-> <<>>, devDependencies |-> <<>>],
     [state |-> "malformed", dependencies |-> <<>>, devDependencies |-> <<>>],
     [state |-> "ok", dependencies |-> <<S_a>>, devDependencies |-> <<S_b>>]}

\* A registry.json left by an earlier run.
OldFile ==
    [writes |-> 0, items |-> <<<<<<"name", S_x>>>>>>]

\* A directory that does not exist holds no files.
GenerateProjects ==
    {[cwdExists |-> e, packageJson |-> pj, tree |-> t] :
        <<e, pj, t>> \in {v \in BOOLEAN \X PackageJsons \X Trees :
                            v[1] \/ v[3] = <<>>}}

InitGenerate ==
    /\ ScanIdle
    /\ CallIdle
    /\ TypeIdle
    /\ project \in GenerateProjects
    /\ bpc = "start"
    /\ loaded = NotLoaded
    /\ componentEntries = <<>>
    /\ registryItems = <<>>
    /\ pkgDependencies = <<>>
    /\ registryJson \in {NoFile, OldFile}
    /\ configDisk = NoConfigDisk
    /\ thrown = NoValue
    /\ listed = 0
    /\ scanned = 0

NextGenerate ==
    \/ CheckDirectory
    \/ ReadDependencies
    \/ ListDirectories
    \/ ProcessDirectory
    \/ WriteRegistry

SpecGenerate ==
    InitGenerate /\ [][NextGenerate]_vars

DependencyKeys ==
    {"dependencies", "devDependencies", "registryDependencies"}

\* C18: a registry item has the key dependencies, devDependencies or
\* registryDependencies exactly when the classified list of that name is
\* not empty, and the value under the key is that list.
C18_KeysCarryTheirLists ==
    \A i \in 1..Len(registryItems) :
        \A key \in DependencyKeys :
            /\ MapHas(registryItems[i], key) <=> pkgDependencies[i][key] # <<>>
            /\ MapHas(registryItems[i], key)
                   => MapGet(registryItems[i], key) = pkgDependencies[i][key]

\* C20: when config.cwd does not exist, every step of generateRegistry
\* ends with the error 'Directory not found', with no file listing and no
\* dependency scan made and registry.json as it was.
C20_MissingDirectoryAborts ==
    [][~project.cwdExists
        => /\ thrown' = "Directory not found"
           /\ bpc' = "failed"
           /\ listed' = 0
           /\ scanned' = 0
           /\ registryJson' = registryJson]_vars

\* Witness of C20: a run on a missing directory has failed, an earlier
\* registry.json still in place.
C20_Witness ==
    /\ ~project.cwdExists
    /\ bpc = "failed"
    /\ thrown = "Directory not found"
    /\ registryJson = OldFile

\* ------------------------------------------------------------------------
\* src/core/registry.config.ts: loadProjectConfig, and the scan made with
\* what it loaded (specification SpecManifest)
\* ------------------------------------------------------------------------

\* An optional list of the configuration that is not given.
NotGiven ==
    [given |-> FALSE, names |-> <<>>]

\* ParsePackageJson without the try/catch: a file that does not parse
\* fails the load.
ParsePackageJson_Rethrows(packageJson) ==
    IF packageJson.state = "ok"
    THEN [thrown          |-> NoValue,
          dependencies    |-> packageJson.dependencies,
          devDependencies |-> packageJson.devDependencies]
    ELSE IF packageJson.state = "malformed"
    THEN [thrown |-> "Unexpected token", dependencies |-> <<>>, devDependencies |-> <<>>]
    ELSE [thrown |-> NoValue, dependencies |-> <<>>, devDependencies |-> <<>>]

\* Lines 40-57: the names declared in package.json; both lists stay empty
\* when the file does not exist or JSON.parse throws.
ParsePackageJson(packageJson) ==
    IF packageJson.state = "ok"
    THEN [thrown          |-> NoValue,
          dependencies    |-> packageJson.dependencies,
          devDependencies |-> packageJson.devDependencies]
    ELSE [thrown |-> NoValue, dependencies |-> <<>>, devDependencies |-> <<>>]

\* Lines 61-67: manual names first, then the names of package.json.
MergeDependencies(manual, names) ==
    IF manual.given
    THEN NewSet(manual.names \o names)
    ELSE names

loadProjectConfig(p, manualDependencies, manualDevDependencies) ==
    IF ~p.componentsJson.found
    THEN [thrown          |-> "components.json not found",
          registries      |-> <<>>,
          dependencies    |-> <<>>,
          devDependencies |-> <<>>]
    ELSE LET pkg == ParsePackageJson(p.packageJson)
         IN  [thrown          |-> pkg.thrown,
              registries      |-> p.componentsJson.registries,
              dependencies    |-> MergeDependencies(manualDependencies, pkg.dependencies),
              devDependencies |-> MergeDependencies(manualDevDependencies, pkg.devDependencies)]

\* generateShadcnRegistry loads the configuration of config.root; what it
\* loaded is what processComponent hands to getDependencies.
LoadProjectConfig ==
    /\ bpc = "load"
    /\ pc = "config"
    /\ LET cfg == loadProjectConfig(project, NotGiven, NotGiven)
       IN  IF cfg.thrown # NoValue
           THEN /\ thrown' = cfg.thrown
                /\ bpc' = "failed"
                /\ UNCHANGED <<loaded, pc, compiledDependencies,
                               compiledDevDependencies, registries>>
           ELSE /\ loaded' = [done            |-> TRUE,
                              dependencies    |-> cfg.dependencies,
                              devDependencies |-> cfg.devDependencies]
                /\ compiledDependencies' = cfg.dependencies
                /\ compiledDevDependencies' = cfg.devDependencies
                /\ registries' = cfg.registries
                /\ bpc' = "process"
                /\ pc' = "idle"
                /\ UNCHANGED thrown
    /\ UNCHANGED <<listing, explicit, calls, files, fileIdx, matchIdx,
                   dependencies, devDependencies, registryDependencies,
                   result, prevResult>>
    /\ UNCHANGED <<project, configDisk, componentEntries, registryItems, pkgDependencies,
                   registryJson, listed, scanned>>
    /\ UNCHANGED <<callVars, typeVars>>

ComponentsJsons ==
    {[found |-> FALSE, registries |-> <<>>],
     [found |-> TRUE, registries |-> <<>>],
     [found |-> TRUE, registries |-> <<<<S_reg, StringEntry(S_url_r)>>>>]}

ManifestProjects ==
    {[componentsJson |-> cj, packageJson |-> pj] :
        cj \in ComponentsJsons, pj \in PackageJsons}

ManifestLiterals ==
    {S_vue, S_a, S_b, S_local, S_a_lib_utils, S_reg_ui_foo}

\* A generation run about to load the configuration of one of projects.
ManifestStart(projects) ==
    /\ compiledDependencies = <<>>
    /\ compiledDevDependencies = <<>>
    /\ registries = <<>>
    /\ listing \in Listings(ManifestLiterals, {"vue"}, MaxFiles, MaxImportsPair)
    /\ explicit = FALSE
    /\ pc = "config"
    /\ calls = 0
    /\ files = <<>>
    /\ fileIdx = 1
    /\ matchIdx = 1
    /\ dependencies = <<>>
    /\ devDependencies = <<>>
    /\ registryDependencies = <<>>
    /\ result = EmptyResult
    /\ prevResult = EmptyResult
    /\ CallIdle
    /\ TypeIdle
    /\ project \in projects
    /\ bpc = "load"
    /\ loaded = NotLoaded
    /\ componentEntries = <<>>
    /\ registryItems = <<>>
    /\ pkgDependencies = <<>>
    /\ registryJson = NoFile
    /\ configDisk = NoConfigDisk
    /\ thrown = NoValue
    /\ listed = 0
    /\ scanned = 0

InitManifest ==
    ManifestStart(ManifestProjects)

NextManifest ==
    \/ LoadProjectConfig
    \/ GetDependenciesCall
    \/ ProcessMatch
    \/ NextFile
    \/ GetDependenciesReturn

SpecManifest ==
    InitManifest /\ [][NextManifest]_vars

\* components.json is there and package.json is missing or does not parse.
ManifestUnreadable ==
    /\ project.componentsJson.found
    /\ project.packageJson.state \in {"missing", "malformed"}

\* The forms under which a literal is kept in registryDependencies: the
\* literal, its last segment, its components/ui name, or a URL of the
\* alias table.
KeptAs(dep, v) ==
    \/ v = dep
    \/ v = LastSegment(dep)
    \/ v # <<>> /\ v = UiName(dep)
    \/ /\ AliasGivesUrl(ObjectEntries(registries), dep)
       /\ StartsWith(v, <<"h", "t", "t", "p", "s", ":">>)

\* What C19 and its amendment share: the load does not fail and hands two
\* empty lists to the scan, which never puts anything into dependencies or
\* devDependencies.
LoadDegradesToEmpty ==
    /\ thrown' = NoValue
    /\ bpc' # "failed"
    /\ loaded'.done => /\ loaded'.dependencies = <<>>
                       /\ loaded'.devDependencies = <<>>
                       /\ compiledDependencies' = <<>>
                       /\ compiledDevDependencies' = <<>>
    /\ dependencies' = <<>>
    /\ devDependencies' = <<>>
    /\ pc' = "done" => /\ result'.dependencies = <<>>
                       /\ result'.devDependencies = <<>>

ManualConfigs ==
    {[dependencies |-> NotGiven, devDependencies |-> NotGiven],
     [dependencies |-> [given |-> TRUE, names |-> <<S_b, S_a>>],
      devDependencies |-> NotGiven],
     [dependencies |-> [given |-> TRUE, names |-> <<S_a>>],
      devDependencies |-> [given |-> TRUE, names |-> <<S_vite, S_b>>]]}

ManualProjects ==
    {[componentsJson |-> [found |-> TRUE, registries |-> <<>>],
      packageJson    |-> pj,
      config         |-> mc] :
        pj \in PackageJsons, mc \in ManualConfigs}

InitManual ==
    ManifestStart(ManualProjects)

SpecManual ==
    InitManual /\ [][NextManifest]_vars

\* The merge of a manual list with the names of package.json: the manual
\* names first, then the declared ones, without duplicates; the declared
\* names alone when no manual list is given.
MergedNames(manual, declared) ==
    IF manual.given THEN NewSet(manual.names \o declared) ELSE declared

\* The names package.json declares; none when it cannot be read.
DeclaredNames(packageJson, field) ==
    IF packageJson.state = "ok" THEN packageJson[field] ELSE <<>>

\* C21: once the configuration is loaded, the lists that classify the
\* imports are the manual lists of the configuration merged with the
\* names of package.json.
C21_MergedListsClassify ==
    loaded.done
        => /\ compiledDependencies =
                MergedNames(project.config.dependencies,
                            DeclaredNames(project.packageJson, "dependencies"))
           /\ compiledDevDependencies =
                MergedNames(project.config.devDependencies,
                            DeclaredNames(project.packageJson, "devDependencies"))

\* ------------------------------------------------------------------------
\* src/utils/config.ts: resolveConfig (specification SpecResolve)
\* ------------------------------------------------------------------------

V_work ==
    <<"/", "w", "o", "r", "k">>
V_src ==
    <<"s", "r", "c">>
V_abs ==
    <<"/", "a", "b", "s">>
V_cli ==
    <<"c", "l", "i">>
V_out ==
    <<"/", "o">>

\* process.cwd()
ProcessCwd ==
    V_work

\* node:path isAbsolute
isAbsolute(path) ==
    StartsWith(path, <<"/">>)

\* node:path resolve(base, path) for an absolute base and a path of at
\* most one segment.
resolve(base, path) ==
    IF isAbsolute(path) THEN path
    ELSE IF path = <<>> \/ path = S_dot THEN base
    ELSE base \o <<"/">> \o path

\* removeEmptyValues: the entries whose value is not empty. An object is
\* the Map of its properties; a property that is undefined is absent.
removeEmptyValues(obj) ==
    SelectSeq(obj, LAMBDA entry : entry[2] # <<>>)

\* defu(object, defaults) on objects of strings: a copy of defaults in
\* which every property of object is assigned.
RECURSIVE defu(_, _)
defu(object, defaults) ==
    IF object = <<>> THEN defaults
    ELSE defu(Tail(object), MapSet(defaults, Head(object)[1], Head(object)[2]))

\* The path of cwd or output in the resolved configuration.
ResolvedPath(root, path) ==
    IF path = S_dot THEN ProcessCwd
    ELSE IF isAbsolute(path) THEN path
    ELSE resolve(root, path)

resolveConfig(config, options) ==
    LET root   == IF isAbsolute(MapGet(config, "root"))
                  THEN MapGet(config, "root")
                  ELSE resolve(ProcessCwd, MapGet(config, "root"))
        merged == defu(removeEmptyValues(config), options)
    IN  [root   |-> root,
         cwd    |-> ResolvedPath(root, MapGet(merged, "cwd")),
         output |-> ResolvedPath(root, MapGet(merged, "output"))]

\* A property that is not written.
Absent ==
    <<"undefined">>

\* The values a configuration file gives to cwd or output.
FileValues ==
    {Absent, <<>>, S_dot, V_src, V_abs}

\* The values of the --cwd and --output options; '.' is their default.
OptionValues ==
    {S_dot, V_cli, V_out}

Property(key, value) ==
    IF value = Absent THEN <<>> ELSE <<<<key, value>>>>

ConfigFiles ==
    {<<<<"root", r>>>> \o Property("cwd", c) \o Property("output", o) :
        r \in {<<>>, D_cwd}, c \in FileValues, o \in FileValues}

ResolveConfigCall ==
    /\ call = NoCall
    /\ \E config \in ConfigFiles, c \in OptionValues, o \in OptionValues :
        call' = [fn      |-> "resolveConfig",
                 config  |-> config,
                 options |-> <<<<"cwd", c>>, <<"output", o>>>>]
    /\ returned' = NotReturned
    /\ UNCHANGED <<scanVars, typeVars, buildVars>>

ResolveConfigReturn ==
    /\ call.fn = "resolveConfig"
    /\ ~returned.done
    /\ returned' = Returned(resolveConfig(call.config, call.options))
    /\ UNCHANGED <<call, scanVars, typeVars, buildVars>>

InitResolve ==
    /\ ScanIdle
    /\ CallIdle
    /\ TypeIdle
    /\ BuildIdle

NextResolve ==
    \/ ResolveConfigCall
    \/ ResolveConfigReturn

SpecResolve ==
    InitResolve /\ [][NextResolve]_vars

\* The absolute path a written value stands for.
PathOf(root, value) ==
    IF value = S_dot THEN V_work
    ELSE IF value[1] = "/" THEN value
    ELSE root \o <<"/">> \o value

\* C22: when the configuration file and the command line both give a value
\* for cwd, or for output, the resolved configuration holds the path of the
\* command-line value.
C22_CommandLineWins ==
    (call.fn = "resolveConfig" /\ returned.done)
    => \A key \in {"cwd", "output"} :
        (/\ MapHas(call.config, key)
         /\ MapGet(call.config, key) # <<>>
         /\ MapGet(call.options, key) # S_dot)
        => returned.value[key] = PathOf(returned.value.root, MapGet(call.options, key))

\* ------------------------------------------------------------------------
\* src/cli.ts: the init command (specification SpecInit)
\* ------------------------------------------------------------------------

\* No registry.config.ts in a directory.
NoConfigFile ==
    [exists |-> FALSE, root |-> <<>>, name |-> <<>>, homepage |-> <<>>]

\* configContent: the file the init command writes.
configContent ==
    [exists |-> TRUE, root |-> <<>>, name |-> <<>>, homepage |-> <<>>]

\* fs.writeFile(configPath, configContent, {flag: 'w'}): the file is
\* created, or truncated and rewritten.
WriteConfigFile(disk, dir) ==
    [disk EXCEPT ![dir] = configContent]

\* At most this many runs of the init command.
MaxInits ==
    2

\* The action of the init command, run in directory dir: it declares no
\* option and reads none.
InitCommand ==
    /\ configDisk.inits < MaxInits
    /\ \E dir \in DOMAIN configDisk.files, force \in BOOLEAN :
        /\ call' = [fn |-> "init", cwd |-> dir, force |-> force]
        /\ configDisk' = [inits |-> configDisk.inits + 1,
                          files |-> WriteConfigFile(configDisk.files, dir)]
    /\ returned' = Returned(<<>>)
    /\ thrown' = NoValue
    /\ UNCHANGED <<project, bpc, loaded, componentEntries, registryItems,
                   pkgDependencies, registryJson, listed, scanned>>
    /\ UNCHANGED <<scanVars, typeVars>>

\* The command-line parser refuses --force, an option the command does not
\* declare, before the action runs.
InitRejected ==
    /\ configDisk.inits < MaxInits
    /\ \E dir \in DOMAIN configDisk.files :
        call' = [fn |-> "init", cwd |-> dir, force |-> TRUE]
    /\ configDisk' = [configDisk EXCEPT !.inits = @ + 1]
    /\ returned' = NotReturned
    /\ thrown' = "Unknown option"
    /\ UNCHANGED <<project, bpc, loaded, componentEntries, registryItems,
                   pkgDependencies, registryJson, listed, scanned>>
    /\ UNCHANGED <<scanVars, typeVars>>

\* Configuration files a user may have in a directory.
ConfigFileContents ==
    {NoConfigFile,
     configContent,
     [exists |-> TRUE, root |-> V_src, name |-> S_a, homepage |-> <<>>],
     [exists |-> TRUE, root |-> S_dot, name |-> S_x, homepage |-> S_url_x],
     [exists |-> TRUE, root |-> V_abs, name |-> S_b, homepage |-> S_url_r]}

InitInit ==
    /\ ScanIdle
    /\ CallIdle
    /\ TypeIdle
    /\ project = NoValue
    /\ bpc = "idle"
    /\ loaded = NotLoaded
    /\ componentEntries = <<>>
    /\ registryItems = <<>>
    /\ pkgDependencies = <<>>
    /\ registryJson = NoFile
    /\ \E disk \in [{D_cwd, V_work} -> ConfigFileContents] :
        configDisk = [inits |-> 0, files |-> disk]
    /\ thrown = NoValue
    /\ listed = 0
    /\ scanned = 0

NextInit ==
    \/ InitCommand
    \/ InitRejected

SpecInit ==
    InitInit /\ [][NextInit]_vars

\* C23: a run of the init command leaves every existing registry.config.ts
\* as it is, but the one of its directory when --force is given.
C23_OverwriteOnlyWithForce ==
    [][\A dir \in DOMAIN configDisk.files :
        (/\ configDisk.files[dir].exists
         /\ ~(call'.force /\ call'.cwd = dir))
        => configDisk'.files[dir] = configDisk.files[dir]]_vars

\* ------------------------------------------------------------------------
\* Properties of the type cache (specification SpecTypes)
\* ------------------------------------------------------------------------

\* The segment search on a path, made without the cache.
UncachedType(path) ==
    IF path = <<>> \/ PathSegments(path) = <<>>
    THEN REGISTRY_TYPES.ITEM
    ELSE searchTypeInSegments(PathSegments(path))

\* C24: after any sequence of getRegistryType and clearTypeCache calls, a
\* call of getRegistryType has returned, and the next call on any path
\* would return, what the uncached segment search gives; every cache entry
\* holds the search result of its path, one entry per path, and no empty
\* path is cached.
C24_CacheIsTransparent ==
    /\ (call.fn = "getRegistryType" /\ returned.done)
            => returned.value = UncachedType(call.path)
    /\ \A path \in TypePaths : RegistryTypeOf(path) = UncachedType(path)
    /\ \A entry \in typeCache :
        /\ entry[1] # <<>>
        /\ entry[2] = UncachedType(entry[1])
        /\ \A other \in typeCache : other[1] = entry[1] => other = entry

\* Witness of C24: the second call in a row on 'ui/blocks/hero' returned
\* 'registry:ui' with that entry in the cache.
C24_Witness ==
    /\ typeCalls = 2
    /\ call.fn = "getRegistryType"
    /\ call.path = P_ui_blocks_hero
    /\ returned.done
    /\ returned.value = T_UI
    /\ typeCache = {<<P_ui_blocks_hero, T_UI>>}

\* C29: the cache stays within a fixed bound however many distinct paths
\* are passed: it never holds as many entries as the calls that may be
\* made.
C29_CacheBounded ==
    Cardinality(typeCache) < MaxTypeCalls

\* ------------------------------------------------------------------------
\* The relative-import skip and Unicode spellings (specification
\* SpecUnicode)
\* ------------------------------------------------------------------------

\* C30: a literal whose NFKC form begins with '.' is skipped: processing
\* it adds nothing to any of the three lists.
C30_NormalizedRelativeSkipped ==
    [][(/\ AtImport
        /\ StartsWith(NormalizeNFKC(CurrentImport), <<".">>))
        => UNCHANGED <<dependencies, devDependencies, registryDependencies>>]_vars

\* ------------------------------------------------------------------------
\* The extensions scanned (specification SpecRepeat)
\* ------------------------------------------------------------------------

\* C28: every listed file with one of the valid extensions is scanned by
\* getDependencies, with the glob and with an explicit file list alike: the
\* files of a call are the listed files whose extension is valid.
C28_SameExtensionsEverywhere ==
    pc = "scan"
        => files = SelectSeq(listing, LAMBDA f : f.ext \in VALID_EXTENSIONS)

\* ------------------------------------------------------------------------
\* generateShadcnRegistry and processComponent (specification SpecBuild)
\* ------------------------------------------------------------------------

D_lib_composable ==
    D_cwd \o <<"/", "l", "i", "b", "/", "c", "o", "m", "p", "o", "s", "a", "b", "l", "e">>

P_lib_createContext == D_lib_composable \o <<"/">> \o F_createContext_ts
P_lib_ab == D_lib_composable \o <<"/">> \o F_ab_ts

\* The three Object.assign calls of processComponent: each list under its
\* own key, when it is not empty.
AttachLists(item, pkg) ==
    LET withDeps == IF Len(pkg.dependencies) # 0
                    THEN MapSet(item, "dependencies", pkg.dependencies)
                    ELSE item
        withDev  == IF Len(pkg.devDependencies) # 0
                    THEN MapSet(withDeps, "devDependencies", pkg.devDependencies)
                    ELSE withDeps
    IN  IF Len(pkg.registryDependencies) # 0
        THEN MapSet(withDev, "registryDependencies", pkg.registryDependencies)
        ELSE withDev

\* The files processComponent lists for a unit: the given file of a
\* file-based unit, the glob of the directory otherwise.
ComponentFiles(p, dir, filesInDir) ==
    LET isFileBased == Len(filesInDir) = 1 /\ filesInDir[1] = dir
    IN  IF isFileBased
        THEN filesInDir
        ELSE LET globbed == GlobDirectory(p, dir)
             IN  [i \in 1..Len(globbed) |-> globbed[i].path]

\* The directory processComponent works in.
ActualDir(dir, filesInDir) ==
    IF Len(filesInDir) = 1 /\ filesInDir[1] = dir THEN dirname(dir) ELSE dir

\* The paths processComponent passes to getRegistryType.
TypedPaths(p, dir, filesInDir) ==
    LET actualDir   == ActualDir(dir, filesInDir)
        relativeDir == relative(D_cwd, actualDir)
        unitFiles   == ComponentFiles(p, dir, filesInDir)
    IN  {relativeDir} \cup
            {join(relativeDir, relative(actualDir, unitFiles[i])) :
                i \in 1..Len(unitFiles)}

\* The result of the getDependencies call of processComponent: the scan
\* of the directory actualDir.
ComponentDependencies(p, dir, filesInDir, config) ==
    getDependencies(GlobDirectory(p, ActualDir(dir, filesInDir)),
                    config.dependencies, config.devDependencies, config.registries)

\* processComponent(dir, filesInDir, config, precomputedName) in the
\* project p. An object is the Map of its properties in insertion order.
processComponent(p, dir, filesInDir, config, precomputedName) ==
    LET actualDir   == ActualDir(dir, filesInDir)
        unitFiles   == ComponentFiles(p, dir, filesInDir)
        relativeDir == relative(D_cwd, actualDir)
        name        == IF precomputedName # <<>> THEN precomputedName
                       ELSE getComponentName(dir, filesInDir)
        registryItem ==
            <<<<"name", name>>,
              <<"type", RegistryTypeOf(relativeDir)>>,
              <<"files", [i \in 1..Len(unitFiles) |->
                            LET relativeFilePath ==
                                    join(relativeDir,
                                         relative(actualDir, unitFiles[i]))
                            IN  [path |-> relativeFilePath,
                                 type |-> RegistryTypeOf(relativeFilePath)]]>>>>
    IN  AttachLists(registryItem, ComponentDependencies(p, dir, filesInDir, config))

\* Step 2 of generateShadcnRegistry: the units of the files matched below
\* config.cwd.
DiscoverEntries ==
    /\ bpc = "process"
    /\ listed = 0
    /\ componentEntries' = discoverComponents(GlobComponentFiles(project)).componentEntries
    /\ listed' = 1
    /\ bpc' = "components"
    /\ UNCHANGED <<project, configDisk, loaded, registryItems, pkgDependencies,
                   registryJson, thrown, scanned>>
    /\ UNCHANGED <<scanVars, callVars, typeVars>>

\* Step 3: the callback of componentEntries.map on the next entry. The
\* callback is synchronous, so the entries are processed one after the
\* other in the order of the array.
ProcessEntry ==
    /\ bpc = "components"
    /\ Len(registryItems) < Len(componentEntries)
    /\ LET entry        == componentEntries[Len(registryItems) + 1]
           componentDir == IF entry.isFileBased THEN entry.files[1] ELSE entry.dir
           name         == getComponentName(entry.dir, entry.files)
           config       == [dependencies    |-> loaded.dependencies,
                            devDependencies |-> loaded.devDependencies,
                            registries      |-> registries]
           typed        == TypedPaths(project, componentDir, entry.files)
       IN  /\ registryItems' =
                Append(registryItems,
                       processComponent(project, componentDir, entry.files, config, name))
           /\ pkgDependencies' =
                Append(pkgDependencies,
                       ComponentDependencies(project, componentDir, entry.files, config))
           /\ typeCache' = TypeCacheAfterAll(typed)
           /\ typeCalls' = typeCalls + Cardinality(typed)
    /\ scanned' = scanned + 1
    /\ UNCHANGED <<project, configDisk, bpc, loaded, componentEntries, registryJson,
                   thrown, listed>>
    /\ UNCHANGED <<scanVars, callVars>>

\* Step 4: the schema is returned with the items in the order of the
\* entries.
ReturnRegistry ==
    /\ bpc = "components"
    /\ Len(registryItems) = Len(componentEntries)
    /\ returned' = Returned([items |-> registryItems])
    /\ bpc' = "done"
    /\ UNCHANGED <<call, scanVars, typeVars>>
    /\ UNCHANGED <<project, configDisk, loaded, componentEntries, registryItems,
                   pkgDependencies, registryJson, thrown, listed, scanned>>

\* At most this many component files below config.cwd.
MaxBuildFiles ==
    3

BuildPaths ==
    {P_button_index, P_button_Button, P_lib_createContext, P_lib_ab}

BuildImports ==
    {<<>>, <<S_a>>, <<S_b, S_reg_ui_foo>>}

BuildTrees ==
    {[i \in 1..Len(t[1]) |->
        [path |-> t[1][i], ext |-> Extension(t[1][i]), imports |-> t[2][i]]] :
        t \in {u \in BoundedSeq(BuildPaths, MaxBuildFiles)
                     \X BoundedSeq(BuildImports, MaxBuildFiles) :
                  /\ Len(u[1]) = Len(u[2])
                  /\ \A i, j \in 1..Len(u[1]) : i # j => u[1][i] # u[1][j]}}

BuildProjects ==
    {[cwdExists |-> TRUE, componentsJson |-> cj, packageJson |-> pj, tree |-> t] :
        cj \in ComponentsJsons,
        pj \in {q \in PackageJsons : q.state = "ok"},
        t \in BuildTrees}

\* The module-level cache as earlier calls of getRegistryType in the same
\* process left it.
EarlierCaches ==
    {{},
     {<<path, searchTypeInSegments(PathSegments(path))>> :
        path \in {relative(D_cwd, D_ui_button),
                  relative(D_cwd, D_lib_composable)}}}

InitBuild ==
    /\ compiledDependencies = <<>>
    /\ compiledDevDependencies = <<>>
    /\ registries = <<>>
    /\ listing = <<>>
    /\ explicit = FALSE
    /\ pc = "config"
    /\ calls = 0
    /\ files = <<>>
    /\ fileIdx = 1
    /\ matchIdx = 1
    /\ dependencies = <<>>
    /\ devDependencies = <<>>
    /\ registryDependencies = <<>>
    /\ result = EmptyResult
    /\ prevResult = EmptyResult
    /\ CallIdle
    /\ typeCache \in EarlierCaches
    /\ typeCalls = 0
    /\ project \in BuildProjects
    /\ bpc = "load"
    /\ loaded = NotLoaded
    /\ componentEntries = <<>>
    /\ registryItems = <<>>
    /\ pkgDependencies = <<>>
    /\ registryJson = NoFile
    /\ configDisk = NoConfigDisk
    /\ thrown = NoValue
    /\ listed = 0
    /\ scanned = 0

NextBuild ==
    \/ LoadProjectConfig
    \/ DiscoverEntries
    \/ ProcessEntry
    \/ ReturnRegistry

SpecBuild ==
    InitBuild /\ [][NextBuild]_vars

\* The path handed to processComponent for an entry.
ComponentDirOf(entry) ==
    IF entry.isFileBased THEN entry.files[1] ELSE entry.dir

\* The files of the project that belong to the unit of an entry: the ones
\* its item lists.
UnitFiles(entry) ==
    LET own == ComponentFiles(project, ComponentDirOf(entry), entry.files)
    IN  SelectSeq(project.tree,
                  LAMBDA f : \E i \in 1..Len(own) : own[i] = f.path)

\* The three lists classified from the files of the unit alone.
OwnDependencies(entry) ==
    getDependencies(UnitFiles(entry), loaded.dependencies, loaded.devDependencies,
                    registries)

\* C25: the lists attached to an item are the ones classified from the
\* files of its own unit: each of the three keys is present exactly when
\* the list computed from those files is not empty, and holds that list.
C25_OwnFilesOnly ==
    \A i \in 1..Len(registryItems) :
        \A key \in DependencyKeys :
            LET own == OwnDependencies(componentEntries[i])[key]
            IN  /\ MapHas(registryItems[i], key) <=> own # <<>>
                /\ MapHas(registryItems[i], key)
                        => MapGet(registryItems[i], key) = own

\* The item of an entry processed alone: every type comes from the segment
\* search, nothing from the cache.
AloneItem(entry) ==
    LET dir         == ComponentDirOf(entry)
        actualDir   == ActualDir(dir, entry.files)
        unitFiles   == ComponentFiles(project, dir, entry.files)
        relativeDir == relative(D_cwd, actualDir)
        config      == [dependencies    |-> loaded.dependencies,
                        devDependencies |-> loaded.devDependencies,
                        registries      |-> registries]
    IN  AttachLists(
            <<<<"name", getComponentName(entry.dir, entry.files)>>,
              <<"type", UncachedType(relativeDir)>>,
              <<"files", [i \in 1..Len(unitFiles) |->
                            [path |-> join(relativeDir, relative(actualDir, unitFiles[i])),
                             type |-> UncachedType(
                                        join(relativeDir,
                                             relative(actualDir, unitFiles[i])))]]>>>>,
            ComponentDependencies(project, dir, entry.files, config))

\* C26: whatever was processed before and whatever the type cache holds,
\* the item of each component is the item it gets when processed alone.
C26_ItemAsProcessedAlone ==
    \A i \in 1..Len(registryItems) :
        registryItems[i] = AloneItem(componentEntries[i])

\* Witness of C26: two units of the same directory were processed, the
\* second with the type of the directory already in the cache.
C26_Witness ==
    /\ bpc = "done"
    /\ Len(registryItems) >= 2
    /\ componentEntries[1].dir = componentEntries[2].dir
    /\ TypeCacheHas(relative(D_cwd, componentEntries[1].dir))
    /\ MapGet(registryItems[2], "type") = REGISTRY_TYPES.COMPOSABLE

\* The place of a file in the listing of the project; the place of the
\* first listed file of a directory.
PlaceOf(file) ==
    CHOOSE k \in 1..Len(project.tree) : project.tree[k].path = file

FirstPlaceIn(dir) ==
    CHOOSE k \in 1..Len(project.tree) :
        /\ ParentOf(project.tree[k].path) = dir
        /\ \A m \in 1..(k - 1) : ParentOf(project.tree[m].path) # dir

\* C27: the units are in the order of the listing (directories by their
\* first listed file, the files of a directory in listing order), there are
\* never more items than units, items[i] carries the name and the files of
\* componentEntries[i], and the returned list has one item per unit.
C27_ItemsFollowListing ==
    /\ \A i, j \in 1..Len(componentEntries) :
        i < j =>
            LET a == componentEntries[i]
                b == componentEntries[j]
            IN  IF a.dir = b.dir
                THEN PlaceOf(a.files[1]) < PlaceOf(b.files[1])
                ELSE FirstPlaceIn(a.dir) < FirstPlaceIn(b.dir)
    /\ \A i \in 1..Len(componentEntries) :
        \A m, n \in 1..Len(componentEntries[i].files) :
            m < n => PlaceOf(componentEntries[i].files[m])
                        < PlaceOf(componentEntries[i].files[n])
    /\ Len(registryItems) <= Len(componentEntries)
    /\ \A i \in 1..Len(registryItems) :
        LET entry     == componentEntries[i]
            actualDir == ActualDir(ComponentDirOf(entry), entry.files)
            unitFiles == ComponentFiles(project, ComponentDirOf(entry), entry.files)
            listedFiles == MapGet(registryItems[i], "files")
        IN  /\ MapGet(registryItems[i], "name") = getComponentName(entry.dir, entry.files)
            /\ Len(listedFiles) = Len(unitFiles)
            /\ \A k \in 1..Len(unitFiles) :
                listedFiles[k].path = relative(D_cwd, unitFiles[k])
    /\ bpc = "done" =>
        /\ returned.done
        /\ returned.value.items = registryItems
        /\ Len(registryItems) = Len(componentEntries)

\* Witness of C27: 'ab.ts' of lib/composable, then ui/button/index.vue,
\* then 'createContext.ts' of lib/composable were listed, and the three
\* items were returned with both units of lib/composable first.
C27_Witness ==
    /\ bpc = "done"
    /\ GlobComponentFiles(project) = <<P_lib_ab, P_button_index, P_lib_createContext>>
    /\ Len(returned.value.items) = 3
    /\ componentEntries[2].files = <<P_lib_createContext>>
    /\ MapGet(registryItems[3], "name") = <<"b", "u", "t", "t", "o", "n">>

====
